---- MODULE Spec2Model ----
(***************************************************************************)
(* Supervisor / update subsystem of comfy-mobile-ui-api-extension.         *)
(*                                                                         *)
(*   launcher_service.py  EnhancedExternalComfyUILauncher (process         *)
(*                        controller, restart orchestrator, log buffer),   *)
(*                        DualProtocolServer (dual-protocol listener),     *)
(*                        LauncherAPIHandler (control API)                 *)
(*   update_service.py    UpdateService (update manager)                   *)
(*   launcher.py          ComfyUILauncher, perform_bootstrap_update        *)
(*                                                                         *)
(* Python threads interleave between bytecodes, so every read or write of  *)
(* a shared attribute (self.comfyui_process, self.is_downloading,          *)
(* self.log_buffer, ...) is a step of its own; purely local computation    *)
(* (sleeps, formatting) is folded into the neighbouring step.              *)
(***************************************************************************)
EXTENDS Integers, Sequences, FiniteSets, TLC

VARIABLES
    \* ---- EnhancedExternalComfyUILauncher (launcher_service.py) ----
    args_cfg,          \* which launch argument list self.comfyui_args holds (fixed by __init__)
    comfyui_process,   \* self.comfyui_process: pid of the tracked Popen, or None
    is_running,        \* self.is_running
    procs,             \* the OS process table restricted to worker processes: pid -> state
    pc,                \* control point of each thread that may run manual_restart()
    elapsed,           \* per thread: time.time() - wait_start in the responsiveness wait
    orphan,            \* per thread: orphaned_process of stop_comfyui()
    stop_success,      \* per thread: stop_success of restart_comfyui()
    result,            \* per thread: outcome of the restart sequence
    nRestarts,         \* number of restart requests issued so far (bounded)
    restart_logs,      \* per thread: entries of level 'restart' it has appended to the
                       \* log in its current restart sequence
    hist,              \* per thread: what it has done so far in its current sequence (the
                       \* calls made, the process signalled and waited for) -- a record
                       \* of the execution, read by no step of the program
    cpc,               \* control point of the thread running _console_input_loop

    \* ---- UpdateService (update_service.py) ----
    is_downloading,    \* self.is_downloading
    download_progress, \* self.download_progress
    last_error,        \* self.last_error: None or the text of the exception
    staging_exists,    \* self.staging_dir.exists()
    staging,           \* paths below self.staging_dir ("d/" is a directory entry)
    hpc,               \* control point of each handler thread inside start_download
    harg,              \* per handler thread: the arguments of its call
    hret,              \* per handler thread: what its last start_download call returned
    tpc,               \* control point of each download task (thread running _download_task)
    task,              \* per task: its arguments, the payload its URL serves, its locals
    zipdata,           \* content of staging/update.zip: per chunk position, the payload it came from
    zipfd,             \* per task: its open file object still refers to staging/update.zip
    extracted,         \* tasks whose extractall() has written entries into the staging directory
    nCalls,            \* number of start_download calls issued so far (bounded)
    stale,             \* the handler threads that were past the busy-flag test (76) of a
                       \* start_download call when a task last ended in error, and whose
                       \* call has not returned yet -- a record of the execution, read by
                       \* no step of the program

    \* ---- log buffer of EnhancedExternalComfyUILauncher ----
    log_buffer,        \* self.log_buffer: entries oldest first (an entry is its append ordinal)
    wpc,               \* control point of each thread inside log()
    nAppends,          \* number of append() calls performed so far (bounded)
    nReturned,         \* number of log() calls that have returned
    rpc,               \* control point of the thread inside get_recent_logs()
    response,          \* the fields of get_recent_logs' result read so far

    \* ---- DualProtocolServer (launcher_service.py) ----
    ssl_context,       \* self.ssl_context: "None" or "SSLContext" (fixed by __init__)
    lpc,               \* control point of the serving thread inside get_request()
    conn,              \* the connection get_request is working on
    requests,          \* what get_request returned for each accepted connection, in order
    backlog,           \* connections the kernel has completed and accept() has not taken yet

    \* ---- installation root (launcher.py, update_service.py) ----
    version_file,      \* the "version" of extension_root/version.json, or NoFile
    update_info,       \* what the last check_for_update call returned
    update_status,     \* what the last get_update_status call returned, with the flags it read
    install,           \* paths below extension_root other than version.json, each with the
                       \* release its content came from: <<path, "old" or "new">>
    bpc,               \* control point of perform_bootstrap_update in the starting worker
    todo,              \* the entries staging_dir.iterdir() has yet to yield
    boot_result,       \* what the last perform_bootstrap_update run printed at its end

    \* ---- main thread of the supervisor: run(), monitor_loop() ----
    mpc,               \* control point of the main thread
    last_down_logged,  \* self._last_down_logged: "unset" (no such attribute), "True" or "False"
    logs_subscribed,   \* monitor_loop's local logs_subscribed
    server_detected,   \* monitor_loop's local server_detected
    monitor_log,       \* the last two outage entries monitor_loop has logged, oldest first

    \* ---- control API server and shutdown() ----
    api_server,        \* self.api_server: "None", or the server object by its state:
                       \* "serving" (serve_forever running), "not_serving", "closed"
    idle_conn,         \* a handler thread is blocked reading a connection that sends nothing
    shutting,          \* the threads that are inside shutdown()

    \* ---- GET /status: get_api_status() ----
    gpc,               \* control point of the handler thread inside get_api_status()
    api_status         \* the "comfyui" fields of the status dict evaluated so far

launcherVars == <<args_cfg, comfyui_process, is_running, procs, pc, elapsed,
                  orphan, stop_success, result, nRestarts, restart_logs, hist, cpc>>

updateVars == <<is_downloading, download_progress, last_error, staging_exists,
                staging, hpc, harg, hret, tpc, task,
                zipdata, zipfd, extracted, nCalls, stale>>

logVars == <<log_buffer, wpc, nAppends, nReturned, rpc, response>>

listenerVars == <<ssl_context, lpc, conn, requests, backlog>>

installVars == <<version_file, update_info, update_status, install, bpc, todo, boot_result>>
bootVars == <<install, bpc, todo, boot_result>>

\* What the launcher's restart machinery leaves alone, and so on.
monitorVars == <<mpc, last_down_logged, logs_subscribed, server_detected, monitor_log>>

serverVars == <<api_server, idle_conn, shutting>>

statusVars == <<gpc, api_status>>

nonLauncherVars == <<updateVars, logVars, listenerVars, installVars, monitorVars, serverVars,
                     statusVars>>
nonUpdateVars == <<launcherVars, logVars, listenerVars, installVars, monitorVars, serverVars,
                     statusVars>>
nonLogVars == <<launcherVars, updateVars, listenerVars, installVars, monitorVars, serverVars,
                     statusVars>>
nonListenerVars == <<launcherVars, updateVars, logVars, installVars, monitorVars, serverVars,
                     statusVars>>
nonInstallVars == <<launcherVars, updateVars, logVars, listenerVars, monitorVars, serverVars,
                     statusVars>>
nonDiskVars == <<launcherVars, logVars, listenerVars, is_downloading, download_progress,
                 last_error, hpc, harg, hret, nCalls, stale, tpc, task, update_info, update_status,
                 monitorVars, serverVars, statusVars>>
nonMonitorVars == <<updateVars, logVars, listenerVars, installVars, serverVars, statusVars>>
nonServerVars == <<updateVars, logVars, listenerVars, installVars, monitorVars, statusVars>>
nonStatusVars == <<updateVars, logVars, listenerVars, installVars, monitorVars, serverVars>>

vars == <<launcherVars, updateVars, logVars, listenerVars, installVars, monitorVars,
          serverVars, statusVars>>

\* --------------------------------------------------------------------------
\* Strings.  Python strings are modelled as sequences of one-character
\* strings so that substring search and lower() are computed, not assumed.
\* --------------------------------------------------------------------------
UpperChars == <<"A","B","C","D","E","F","G","H","I","J","K","L","M",
                "N","O","P","Q","R","S","T","U","V","W","X","Y","Z">>
LowerChars == <<"a","b","c","d","e","f","g","h","i","j","k","l","m",
                "n","o","p","q","r","s","t","u","v","w","x","y","z">>

\* str.lower() on one character
LowerChar(c) ==
    IF \E i \in 1..Len(UpperChars) : UpperChars[i] = c
    THEN LowerChars[CHOOSE i \in 1..Len(UpperChars) : UpperChars[i] = c]
    ELSE c

\* str.lower()
Lower(s) == [i \in 1..Len(s) |-> LowerChar(s[i])]

\* Python's `sub in s` for strings
Contains(s, sub) ==
    \E i \in 0..(Len(s) - Len(sub)) : SubSeq(s, i + 1, i + Len(sub)) = sub

Digits == <<"0","1","2","3","4","5","6","7","8","9">>

RECURSIVE IntToStr(_)
\* str(n) for a non-negative integer
IntToStr(n) ==
    IF n < 10 THEN <<Digits[n + 1]>>
    ELSE Append(IntToStr(n \div 10), Digits[(n % 10) + 1])

\* The literal strings the launcher code looks for or is configured with.
S_main_py == <<"m","a","i","n",".","p","y">>
S_watchdog == <<"w","a","t","c","h","d","o","g">>
S_launcher_service_py ==
    <<"l","a","u","n","c","h","e","r","_","s","e","r","v","i","c","e",".","p","y">>
S_python == <<"p","y","t","h","o","n">>
S_port_opt == <<"-","-","p","o","r","t">>
S_8188 == <<"8","1","8","8">>
S_Watchdog_py == <<"W","a","t","c","h","d","o","g",".","p","y">>

\* --------------------------------------------------------------------------
\* Program constants
\* --------------------------------------------------------------------------
comfyui_port == 8188         \* config_data.get('comfyui_port', 8188)
max_wait == 45               \* restart_comfyui: max_wait = 45
PollSleep == 2               \* restart_comfyui: time.sleep(2) in the wait loop
ProbeTimeout == 10           \* is_comfyui_responsive: requests.get(..., timeout=10)

\* --------------------------------------------------------------------------
\* Bounds of the model
\* --------------------------------------------------------------------------
MaxRestarts == 3             \* restart requests issued in one behaviour

\* Processes, threads and launch arguments explored
None == 0                    \* Python's None for a pid-valued attribute
OrigPid == 1                 \* the worker that started the supervisor (never tracked)
MaxPid == OrigPid + MaxRestarts
Pids == OrigPid..MaxPid

Threads == {"t1", "t2"}      \* threads able to run manual_restart()

\* How long one unresponsive probe takes: refused at once, or the full timeout.
ProbeDurations == {0, ProbeTimeout}

\* The launch argument lists ([comfyui_script] + launch_args) explored.
ArgsPlain == <<S_main_py, S_port_opt, S_8188>>
ArgsWatchdog == <<S_main_py, S_Watchdog_py>>
ArgsSelf == <<S_main_py, S_launcher_service_py>>
ArgConfigs == <<ArgsPlain, ArgsWatchdog, ArgsSelf>>

\* self.comfyui_args = [comfyui_script] + launch_args
comfyui_args == ArgConfigs[args_cfg]

\* --------------------------------------------------------------------------
\* Pure helpers of the process controller
\* --------------------------------------------------------------------------

\* start_comfyui's recursion guard:
\*   any('watchdog' in str(arg).lower() for arg in self.comfyui_args)
RecursiveSpawnGuard(args) ==
    \E i \in 1..Len(args) : Contains(Lower(args[i]), S_watchdog)

\* cmd = [self.python_executable] + self.comfyui_args
LaunchCmd(args) == <<S_python>> \o args

\* find_comfyui_process's test on one command line
SignatureMatch(cmdline) ==
    /\ Len(cmdline) > 0
    /\ \E i \in 1..Len(cmdline) : Contains(cmdline[i], S_main_py)
    /\ \E i \in 1..Len(cmdline) : Contains(cmdline[i], IntToStr(comfyui_port))

\* find_comfyui_process: the first live process (psutil iterates by pid) whose
\* command line matches; None when there is none or when the scan itself raised.
find_comfyui_process(scan_ok) ==
    LET matching == {p \in Pids : procs[p] = "alive"
                                  /\ SignatureMatch(LaunchCmd(comfyui_args))}
    IN IF scan_ok /\ matching # {}
       THEN CHOOSE p \in matching : \A q \in matching : p <= q
       ELSE None

\* A poll that reports every process as still running.
PollAlwaysNone(p) == TRUE

\* Popen.poll() is None
IsAlive(p) == procs[p] = "alive"

\* The pid the OS gives the next spawned worker.
NewPid == CHOOSE p \in Pids : procs[p] = "unborn" /\ \A q \in Pids : procs[q] = "unborn" => p <= q

\* The while-loop head of the responsiveness wait followed by its time.sleep(2):
\* the control point and elapsed time after the test `elapsed < max_wait`.
LoopHeadPc(e) == IF e < max_wait THEN "rc_poll1" ELSE "rc_final1"
LoopHeadElapsed(e) == IF e < max_wait THEN e + PollSleep ELSE e

\* What a thread has done in its current sequence, before it has done anything:
\*   stops, starts  calls of stop_comfyui (873, 1064) and of start_comfyui (897)
\*   termed         the process its terminate() (814) signalled
\*   timedout       the process its wait(timeout=10) (818) gave up on
\*   diag           it has logged the exit diagnostics (907-923)
\*   waited         it has ended after the responsiveness wait ran out (956-964)
\*   beside         its shutdown() (1060) began while a restart sequence was
\*                  running on another thread
NoHist == [stops |-> 0, starts |-> 0, termed |-> None, timedout |-> None,
           diag |-> FALSE, waited |-> FALSE, beside |-> FALSE]

\* --------------------------------------------------------------------------
\* Initial state: the supervisor has been constructed by main(); the worker
\* that launched it is running and is not tracked (comfyui_process = None).
\* --------------------------------------------------------------------------
InitLauncher ==
    /\ args_cfg \in 1..Len(ArgConfigs)
    /\ comfyui_process = None
    /\ is_running = TRUE
    /\ procs = [p \in Pids |-> IF p = OrigPid THEN "alive" ELSE "unborn"]
    /\ pc = [t \in Threads |-> "idle"]
    /\ elapsed = [t \in Threads |-> 0]
    /\ orphan = [t \in Threads |-> None]
    /\ stop_success = [t \in Threads |-> TRUE]
    /\ restart_logs = [t \in Threads |-> 0]
    /\ hist = [t \in Threads |-> NoHist]
    /\ cpc = "c_head"
    /\ result = [t \in Threads |-> "none"]
    /\ nRestarts = 0

\* --------------------------------------------------------------------------
\* Step helpers
\* --------------------------------------------------------------------------
\* The self.log(..., 'restart') calls on the way from one control point of
\* the restart sequence to the next: 657, 857, 861 | 866 or 868, 871 |
\* 882, 887 | 928.
RestartEntries(from, to) ==
    IF from = "mr_begin" THEN 3
    ELSE IF from \in {"rc_status1", "rc_status2"} /\ to = "st_check" THEN 2
    ELSE IF from = "rc_wait" /\ to = "sc_spawn" THEN 2
    ELSE IF from \in {"rc_settle1", "rc_settle2"} /\ to \in {"rc_poll1", "rc_final1"} THEN 1
    ELSE 0

\* The record of thread t's sequence once it has gone from its control point
\* to l: entering stop_comfyui and start_comfyui counts the call; terminate()
\* and the timed-out wait are noted with the process they acted on (the one
\* self.comfyui_process names at that moment); a return of stop_comfyui
\* forgets what that call signalled.
HistAfter(t, l) ==
    LET h == hist[t]
        from == pc[t]
    IN IF l = "idle" THEN NoHist
       ELSE IF l = "st_check" THEN [h EXCEPT !.stops = @ + 1]
       ELSE IF l = "sc_spawn" THEN [h EXCEPT !.starts = @ + 1]
       ELSE IF from = "st_term" /\ l = "st_wait" THEN [h EXCEPT !.termed = comfyui_process]
       ELSE IF from = "st_wait" /\ l = "st_kill" THEN [h EXCEPT !.timedout = comfyui_process]
       ELSE IF l = "rc_wait" THEN [h EXCEPT !.termed = None, !.timedout = None]
       ELSE IF l = "sh_flag"
            THEN [h EXCEPT !.beside = \E u \in Threads \ {t} : pc[u] # "idle"]
       ELSE h

\* Thread t goes on to control point l; the thread that has answered its
\* request starts the next sequence with a count of zero.
\* (When the sequence was started from the console, the console thread is
\* back at the head of its loop.)
Goto(t, l) ==
    /\ pc' = [pc EXCEPT ![t] = l]
    /\ restart_logs' = [restart_logs EXCEPT
                           ![t] = IF l = "idle" THEN 0 ELSE @ + RestartEntries(pc[t], l)]
    /\ hist' = [hist EXCEPT ![t] = HistAfter(t, l)]
    /\ cpc' = IF t = "t1" /\ l = "idle" /\ cpc = "c_restart" THEN "c_head" ELSE cpc

\* The restart sequence of thread t ends with the given outcome.
Finish(t, r) ==
    /\ pc' = [pc EXCEPT ![t] = "done"]
    /\ UNCHANGED <<restart_logs, cpc>>
    /\ hist' = [hist EXCEPT ![t].diag = (pc[t] = "rc_settle2" /\ comfyui_process # None),
                            ![t].waited = (pc[t] \in {"rc_final1", "rc_final2"})]
    /\ result' = [result EXCEPT ![t] = r]
    /\ elapsed' = [elapsed EXCEPT ![t] = 0]
    /\ orphan' = [orphan EXCEPT ![t] = None]

\* --------------------------------------------------------------------------
\* Requests
\* --------------------------------------------------------------------------

\* LauncherAPIHandler.do_POST, path /api/restart: one handler thread per
\* accepted connection (ThreadedHTTPServer) logs and calls manual_restart().
ApiRestart(t) ==
    /\ pc[t] = "idle"
    /\ UNCHANGED nonLauncherVars
    /\ nRestarts < MaxRestarts
    /\ nRestarts' = nRestarts + 1
    /\ Goto(t, "mr_begin")
    /\ UNCHANGED <<args_cfg, comfyui_process, is_running, procs, elapsed,
                   orphan, stop_success, result>>

\* The console thread's steps outside manual_restart leave the rest alone.
ConsoleGoto(l) ==
    /\ cpc' = l
    /\ UNCHANGED <<args_cfg, comfyui_process, is_running, procs, pc, elapsed,
                   orphan, stop_success, result, nRestarts, restart_logs, hist>>
    /\ UNCHANGED nonLauncherVars

\* _console_input_loop: `while self.is_running:` and, the test passed,
\* `cmd = input()`, in which the thread blocks until a line is entered.
ConsoleHead ==
    /\ cpc = "c_head"
    /\ ConsoleGoto(IF is_running THEN "c_input" ELSE "c_stopped")

\* input() returns a line other than 'r' (or, without a terminal, the
\* thread has slept one second): the loop goes round.
ConsoleLine ==
    /\ cpc = "c_input"
    /\ ConsoleGoto("c_head")

\* input() raises EOFError or KeyboardInterrupt: break.
ConsoleEof ==
    /\ cpc = "c_input"
    /\ ConsoleGoto("c_stopped")

\* input() returns 'r': log and manual_restart(), run by the console thread
\* (there is one; in the model it runs the sequence as thread t1).
ConsoleRestart(t) ==
    /\ t = "t1"
    /\ pc[t] = "idle"
    /\ cpc = "c_input"
    /\ UNCHANGED nonLauncherVars
    /\ nRestarts < MaxRestarts
    /\ nRestarts' = nRestarts + 1
    /\ pc' = [pc EXCEPT ![t] = "mr_begin"]
    /\ cpc' = "c_restart"
    /\ UNCHANGED <<args_cfg, comfyui_process, is_running, procs, elapsed,
                   orphan, stop_success, result, restart_logs, hist>>

console_input_loop ==
    \/ ConsoleHead
    \/ ConsoleLine
    \/ ConsoleEof
    \/ ConsoleRestart("t1")

\* manual_restart up to the call of restart_comfyui, and restart_comfyui up to
\* its status report: log, probe, log (no shared state but the log is touched).
manual_restart(t) ==
    /\ pc[t] = "mr_begin"
    /\ UNCHANGED nonLauncherVars
    /\ Goto(t, "rc_status1")
    /\ UNCHANGED <<args_cfg, comfyui_process, is_running, procs, elapsed,
                   orphan, stop_success, result, nRestarts>>

\* restart_comfyui: `if self.comfyui_process:` (first read)
RestartStatus1(t) ==
    /\ pc[t] = "rc_status1"
    /\ UNCHANGED nonLauncherVars
    /\ Goto(t, IF comfyui_process = None THEN "st_check" ELSE "rc_status2")
    /\ UNCHANGED <<args_cfg, comfyui_process, is_running, procs, elapsed,
                   orphan, stop_success, result, nRestarts>>

\* restart_comfyui: `self.comfyui_process.poll()` / `.pid` (re-read): a handle
\* cleared in between raises AttributeError, which leaves restart_comfyui and
\* is caught by manual_restart (returns False).
RestartStatus2(t) ==
    /\ pc[t] = "rc_status2"
    /\ UNCHANGED nonLauncherVars
    /\ IF comfyui_process = None
       THEN Finish(t, "Failed")
       ELSE Goto(t, "st_check") /\ UNCHANGED <<result, elapsed, orphan>>
    /\ UNCHANGED <<args_cfg, comfyui_process, is_running, procs,
                   stop_success, nRestarts>>

\* --------------------------------------------------------------------------
\* stop_comfyui (called from restart_comfyui step 1)
\* --------------------------------------------------------------------------

\* stop_comfyui's `except Exception`: log, self.comfyui_process = None, return False.
\* Every `self.comfyui_process.<attr>` evaluated while the attribute is None
\* raises AttributeError inside the try block and lands here.
StopExcept(t) ==
    /\ comfyui_process' = None
    /\ stop_success' = [stop_success EXCEPT ![t] = FALSE]
    /\ orphan' = [orphan EXCEPT ![t] = None]
    /\ Goto(t, "rc_wait")

\* `if self.comfyui_process:`
StopCheck(t) ==
    /\ pc[t] = "st_check"
    /\ UNCHANGED nonLauncherVars
    /\ Goto(t, IF comfyui_process = None THEN "st_orphan" ELSE "st_poll")
    /\ UNCHANGED <<args_cfg, comfyui_process, is_running, procs, elapsed,
                   orphan, stop_success, result, nRestarts>>

\* `if self.comfyui_process.poll() is None:` and the log line reading .pid
StopPoll(t) ==
    /\ pc[t] = "st_poll"
    /\ UNCHANGED nonLauncherVars
    /\ IF comfyui_process = None
       THEN StopExcept(t)
       ELSE /\ Goto(t, IF IsAlive(comfyui_process) THEN "st_term" ELSE "st_clear")
            /\ UNCHANGED <<comfyui_process, stop_success, orphan>>
    /\ UNCHANGED <<args_cfg, is_running, procs, elapsed, result, nRestarts>>

\* `self.comfyui_process.terminate()`: SIGTERM, which the worker may honour at
\* any later time or ignore (ProcExit); nothing changes at the call itself.
StopTerminate(t) ==
    /\ pc[t] = "st_term"
    /\ UNCHANGED nonLauncherVars
    /\ IF comfyui_process = None
       THEN StopExcept(t)
       ELSE Goto(t, "st_wait") /\ UNCHANGED <<comfyui_process, stop_success, orphan>>
    /\ UNCHANGED <<args_cfg, is_running, procs, elapsed, result, nRestarts>>

\* `self.comfyui_process.wait(timeout=10)`: returns once the process has
\* exited, raises TimeoutExpired while it is still alive after the grace period.
StopWait(t) ==
    /\ pc[t] = "st_wait"
    /\ UNCHANGED nonLauncherVars
    /\ IF comfyui_process = None
       THEN StopExcept(t)
       ELSE /\ Goto(t, IF IsAlive(comfyui_process) THEN "st_kill" ELSE "st_clear")
            /\ UNCHANGED <<comfyui_process, stop_success, orphan>>
    /\ UNCHANGED <<args_cfg, is_running, procs, elapsed, result, nRestarts>>

\* `self.comfyui_process.kill()`: SIGKILL cannot be ignored.
StopKill(t) ==
    /\ pc[t] = "st_kill"
    /\ UNCHANGED nonLauncherVars
    /\ IF comfyui_process = None
       THEN StopExcept(t) /\ UNCHANGED procs
       ELSE /\ procs' = [procs EXCEPT ![comfyui_process] = "exited"]
            /\ Goto(t, "st_kwait")
            /\ UNCHANGED <<comfyui_process, stop_success, orphan>>
    /\ UNCHANGED <<args_cfg, is_running, elapsed, result, nRestarts>>

\* `self.comfyui_process.wait()`: no timeout; blocks until the process the
\* attribute names at this moment has exited.
StopKillWait(t) ==
    /\ pc[t] = "st_kwait"
    /\ UNCHANGED nonLauncherVars
    /\ IF comfyui_process = None
       THEN StopExcept(t)
       ELSE /\ ~IsAlive(comfyui_process)
            /\ Goto(t, "st_clear")
            /\ UNCHANGED <<comfyui_process, stop_success, orphan>>
    /\ UNCHANGED <<args_cfg, is_running, procs, elapsed, result, nRestarts>>

\* terminate() (814) or kill() (823) raises: Popen.terminate() and kill()
\* raise OSError when the OS refuses the signal (PermissionError from
\* os.kill, or from TerminateProcess on a process that is still active).
\* The except clause of stop_comfyui is entered with the worker untouched.
SignalRefused(t) ==
    /\ pc[t] \in {"st_term", "st_kill"}
    /\ UNCHANGED nonLauncherVars
    /\ comfyui_process # None
    /\ StopExcept(t)
    /\ UNCHANGED <<args_cfg, is_running, procs, elapsed, result, nRestarts>>

\* `self.comfyui_process = None`
StopClear(t) ==
    /\ pc[t] = "st_clear"
    /\ UNCHANGED nonLauncherVars
    /\ comfyui_process' = None
    /\ Goto(t, "st_orphan")
    /\ UNCHANGED <<args_cfg, is_running, procs, elapsed, orphan,
                   stop_success, result, nRestarts>>

\* `orphaned_process = self.find_comfyui_process()`; when one is found,
\* `orphaned_process.terminate()`; otherwise return True.
StopFindOrphan(t) ==
    /\ pc[t] = "st_orphan"
    /\ UNCHANGED nonLauncherVars
    /\ \E scan_ok \in BOOLEAN :
         LET o == find_comfyui_process(scan_ok)
         IN IF o = None
            THEN /\ stop_success' = [stop_success EXCEPT ![t] = TRUE]
                 /\ Goto(t, "rc_wait")
                 /\ UNCHANGED orphan
            ELSE /\ orphan' = [orphan EXCEPT ![t] = o]
                 /\ Goto(t, "st_owait")
                 /\ UNCHANGED stop_success
    /\ UNCHANGED <<args_cfg, comfyui_process, is_running, procs, elapsed,
                   result, nRestarts>>

\* `orphaned_process.wait(timeout=5)`: returns when the orphan has exited; a
\* timeout (or any other error) is swallowed by the bare except.  Either way
\* stop_comfyui returns True.
StopOrphanWait(t) ==
    /\ pc[t] = "st_owait"
    /\ UNCHANGED nonLauncherVars
    /\ stop_success' = [stop_success EXCEPT ![t] = TRUE]
    /\ orphan' = [orphan EXCEPT ![t] = None]
    /\ Goto(t, "rc_wait")
    /\ UNCHANGED <<args_cfg, comfyui_process, is_running, procs, elapsed,
                   result, nRestarts>>

\* restart_comfyui step 2: log the stop result, time.sleep(3), log the
\* configuration.
RestartWait(t) ==
    /\ pc[t] = "rc_wait"
    /\ t \notin shutting
    /\ UNCHANGED nonLauncherVars
    /\ Goto(t, "sc_spawn")
    /\ UNCHANGED <<args_cfg, comfyui_process, is_running, procs, elapsed,
                   orphan, stop_success, result, nRestarts>>

\* --------------------------------------------------------------------------
\* start_comfyui (called from restart_comfyui step 3)
\* --------------------------------------------------------------------------

\* start_comfyui up to `self.comfyui_process = subprocess.Popen(...)`:
\* the recursion guard returns False; Popen either raises (caught, returns
\* False) or creates a process and the attribute is overwritten with it.
\* A False return takes restart_comfyui to its else branch (return False).
start_comfyui(t) ==
    /\ pc[t] = "sc_spawn"
    /\ UNCHANGED nonLauncherVars
    /\ \E popen_ok \in BOOLEAN :
         IF RecursiveSpawnGuard(comfyui_args) \/ ~popen_ok
         THEN /\ Finish(t, "Failed")
              /\ UNCHANGED <<comfyui_process, procs>>
         ELSE /\ procs' = [procs EXCEPT ![NewPid] = "alive"]
              /\ comfyui_process' = NewPid
              /\ Goto(t, "sc_log")
              /\ UNCHANGED <<elapsed, orphan, result>>
    /\ UNCHANGED <<args_cfg, is_running, stop_success, nRestarts>>

\* start_comfyui: log(f"... (PID: {self.comfyui_process.pid})"); return True.
\* With the attribute cleared in between, the AttributeError is caught by
\* start_comfyui's own except and False is returned.
StartLogPid(t) ==
    /\ pc[t] = "sc_log"
    /\ UNCHANGED nonLauncherVars
    /\ IF comfyui_process = None
       THEN Finish(t, "Failed")
       ELSE Goto(t, "rc_settle1") /\ UNCHANGED <<elapsed, orphan, result>>
    /\ UNCHANGED <<args_cfg, comfyui_process, is_running, procs,
                   stop_success, nRestarts>>

\* --------------------------------------------------------------------------
\* restart_comfyui steps 4 and 5
\* --------------------------------------------------------------------------

\* time.sleep(2); `if self.comfyui_process and ...` (first read).  With no
\* handle the check is skipped and the wait loop is entered: wait_start = now,
\* loop test, time.sleep(2).
RestartSettle1(t) ==
    /\ pc[t] = "rc_settle1"
    /\ UNCHANGED nonLauncherVars
    /\ IF comfyui_process = None
       THEN /\ Goto(t, LoopHeadPc(0))
            /\ elapsed' = [elapsed EXCEPT ![t] = LoopHeadElapsed(0)]
       ELSE Goto(t, "rc_settle2") /\ UNCHANGED elapsed
    /\ UNCHANGED <<args_cfg, comfyui_process, is_running, procs, orphan,
                   stop_success, result, nRestarts>>

\* `... self.comfyui_process.poll() is not None` (re-read): exited -> log the
\* diagnostics and return False; alive -> enter the wait loop.
RestartSettle2(t) ==
    /\ pc[t] = "rc_settle2"
    /\ UNCHANGED nonLauncherVars
    /\ IF comfyui_process = None \/ ~IsAlive(comfyui_process)
       THEN Finish(t, "Failed")
       ELSE /\ Goto(t, LoopHeadPc(0))
            /\ elapsed' = [elapsed EXCEPT ![t] = LoopHeadElapsed(0)]
            /\ UNCHANGED <<orphan, result>>
    /\ UNCHANGED <<args_cfg, comfyui_process, is_running, procs,
                   stop_success, nRestarts>>

\* In the loop: `if self.comfyui_process and ...` (first read)
RestartPoll1(t) ==
    /\ pc[t] = "rc_poll1"
    /\ UNCHANGED nonLauncherVars
    /\ Goto(t, IF comfyui_process = None THEN "rc_probe" ELSE "rc_poll2")
    /\ UNCHANGED <<args_cfg, comfyui_process, is_running, procs, elapsed,
                   orphan, stop_success, result, nRestarts>>

\* In the loop: `... self.comfyui_process.poll() is not None` (re-read):
\* exited -> "died during startup", return False.
RestartPoll2(t) ==
    /\ pc[t] = "rc_poll2"
    /\ UNCHANGED nonLauncherVars
    /\ IF comfyui_process = None \/ ~IsAlive(comfyui_process)
       THEN Finish(t, "Failed")
       ELSE Goto(t, "rc_probe") /\ UNCHANGED <<elapsed, orphan, result>>
    /\ UNCHANGED <<args_cfg, comfyui_process, is_running, procs,
                   stop_success, nRestarts>>

\* In the loop: `if self.is_comfyui_responsive(): return True`, else log and
\* go round: loop test and time.sleep(2).  The probe answers for whatever
\* listens on the port, so its result is an input.
RestartProbe(t) ==
    /\ pc[t] = "rc_probe"
    /\ UNCHANGED nonLauncherVars
    /\ \E responsive \in BOOLEAN, d \in ProbeDurations :
         IF responsive
         THEN Finish(t, "Success")
         ELSE /\ Goto(t, LoopHeadPc(elapsed[t] + d))
              /\ elapsed' = [elapsed EXCEPT ![t] = LoopHeadElapsed(elapsed[t] + d)]
              /\ UNCHANGED <<orphan, result>>
    /\ UNCHANGED <<args_cfg, comfyui_process, is_running, procs,
                   stop_success, nRestarts>>

\* After the loop: `if self.comfyui_process and ...` (first read); no handle ->
\* "has stopped - restart failed".
RestartFinal1(t) ==
    /\ pc[t] = "rc_final1"
    /\ UNCHANGED nonLauncherVars
    /\ IF comfyui_process = None
       THEN Finish(t, "Failed")
       ELSE Goto(t, "rc_final2") /\ UNCHANGED <<elapsed, orphan, result>>
    /\ UNCHANGED <<args_cfg, comfyui_process, is_running, procs,
                   stop_success, nRestarts>>

\* After the loop: `... self.comfyui_process.poll() is None` (re-read): still
\* alive -> return True (soft success), else return False.
RestartFinal2(t) ==
    /\ pc[t] = "rc_final2"
    /\ UNCHANGED nonLauncherVars
    /\ IF comfyui_process # None /\ IsAlive(comfyui_process)
       THEN Finish(t, "Success")
       ELSE Finish(t, "Failed")
    /\ UNCHANGED <<args_cfg, comfyui_process, is_running, procs,
                   stop_success, nRestarts>>

\* manual_restart has returned: the handler sends its JSON response (or the
\* console loop goes round) and the thread is free again.
Respond(t) ==
    /\ pc[t] = "done"
    /\ UNCHANGED nonLauncherVars
    /\ Goto(t, "idle")
    /\ result' = [result EXCEPT ![t] = "none"]
    /\ stop_success' = [stop_success EXCEPT ![t] = TRUE]
    /\ UNCHANGED <<args_cfg, comfyui_process, is_running, procs, elapsed,
                   orphan, nRestarts>>

\* The worker: any live worker process may exit at any moment, on its own or
\* in answer to a signal.
ProcExit(p) ==
    /\ procs[p] = "alive"
    /\ UNCHANGED nonLauncherVars
    /\ procs' = [procs EXCEPT ![p] = "exited"]
    /\ UNCHANGED <<args_cfg, comfyui_process, is_running, pc, elapsed,
                   orphan, stop_success, result, nRestarts, restart_logs, hist, cpc>>

\* One step of thread t inside a restart sequence.
RestartStep(t) ==
    \/ manual_restart(t)
    \/ RestartStatus1(t)
    \/ RestartStatus2(t)
    \/ StopCheck(t)
    \/ StopPoll(t)
    \/ StopTerminate(t)
    \/ StopWait(t)
    \/ StopKill(t)
    \/ StopKillWait(t)
    \/ StopClear(t)
    \/ StopFindOrphan(t)
    \/ StopOrphanWait(t)
    \/ RestartWait(t)
    \/ start_comfyui(t)
    \/ StartLogPid(t)
    \/ RestartSettle1(t)
    \/ RestartSettle2(t)
    \/ RestartPoll1(t)
    \/ RestartPoll2(t)
    \/ RestartProbe(t)
    \/ RestartFinal1(t)
    \/ RestartFinal2(t)
    \/ Respond(t)

\* --------------------------------------------------------------------------
\* monitor_loop (988-1039), run by the main thread: status monitoring only.
\* --------------------------------------------------------------------------
InitMonitor ==
    /\ mpc = "m_idle"
    /\ last_down_logged = "unset"
    /\ logs_subscribed = FALSE
    /\ server_detected = FALSE
    /\ monitor_log = <<>>

\* What an automatic restart would do: take an idle thread into manual_restart.
AutoRestart(p) == [p EXCEPT !["t1"] = IF p["t1"] = "idle" THEN "mr_begin" ELSE p["t1"]]

\* What the monitor does to the restart threads when the worker does not
\* answer: nothing ("waiting for manual restart request").
OnNotResponsive(p) == p

\* run() reaches monitor_loop(): log, the two locals are set to False.
MonitorStart ==
    /\ mpc = "m_run"
    /\ UNCHANGED nonMonitorVars
    /\ mpc' = "m_head"
    /\ logs_subscribed' = FALSE
    /\ server_detected' = FALSE
    /\ UNCHANGED <<launcherVars, last_down_logged, monitor_log>>

\* `while self.is_running:`; after the loop: log "monitoring stopped".
MonitorHead ==
    /\ mpc = "m_head"
    /\ UNCHANGED nonMonitorVars
    /\ mpc' = IF is_running THEN "m_probe" ELSE "m_stopped"
    /\ UNCHANGED <<launcherVars, last_down_logged, logs_subscribed, server_detected,
                   monitor_log>>

\* The monitor's log with one more outage entry (the two newest are kept).
Logged(w, e) == IF Len(w) < 2 THEN Append(w, e) ELSE <<w[2], e>>

\* A monitor that logs every failed probe.
EveryProbeLogged(flag) == TRUE

\* `not hasattr(self, '_last_down_logged') or not self._last_down_logged`
DownNotLogged(flag) == flag # "True"

\* `hasattr(self, '_last_down_logged') and self._last_down_logged`
DownLogged(flag) == flag = "True"

\* One round of the loop body: the probe (its result is an input, as it
\* answers for whatever listens on the port), the branch taken on it, and
\* time.sleep(current_interval).
MonitorProbe ==
    /\ mpc = "m_probe"
    /\ UNCHANGED nonMonitorVars
    /\ \E is_responsive \in BOOLEAN :
        IF ~is_responsive
        THEN /\ IF DownNotLogged(last_down_logged)
                THEN /\ monitor_log' = Logged(monitor_log, "not responsive")
                     /\ last_down_logged' = "True"
                ELSE UNCHANGED <<monitor_log, last_down_logged>>
             /\ logs_subscribed' = FALSE
             /\ server_detected' = FALSE
             /\ pc' = OnNotResponsive(pc)
        ELSE /\ IF DownLogged(last_down_logged)
                THEN /\ monitor_log' = Logged(monitor_log, "responsive again")
                     /\ last_down_logged' = "False"
                ELSE UNCHANGED <<monitor_log, last_down_logged>>
             /\ logs_subscribed' = TRUE
             /\ server_detected' = TRUE
             /\ UNCHANGED pc
    /\ mpc' = "m_head"
    /\ UNCHANGED <<args_cfg, comfyui_process, is_running, procs, elapsed, orphan,
                   stop_success, result, nRestarts, restart_logs, hist, cpc>>

\* `except KeyboardInterrupt: ... break` (Ctrl-C while probing or sleeping)
MonitorInterrupt ==
    /\ mpc = "m_probe"
    /\ UNCHANGED nonMonitorVars
    /\ mpc' = "m_stopped"
    /\ UNCHANGED <<launcherVars, last_down_logged, logs_subscribed, server_detected,
                   monitor_log>>

monitor_loop ==
    \/ MonitorStart
    \/ MonitorHead
    \/ MonitorProbe
    \/ MonitorInterrupt

\* --------------------------------------------------------------------------
\* The control API server's life: start_api_server (496-593), the handler
\* threads of its connections, shutdown (1060-1065), stop_api_server (595-605).
\* --------------------------------------------------------------------------
InitServer ==
    /\ api_server = "None"
    /\ idle_conn = FALSE
    /\ shutting = {}

\* run() calls start_api_server(): the server is bound and its thread runs
\* serve_forever; or the bind raises and self.api_server stays None; or the
\* server is bound and starting its thread raises (self.api_server is set
\* and never serves).  All three return to run(), which goes on.
start_api_server ==
    /\ mpc = "m_idle"
    /\ mpc' = "m_run"
    /\ api_server' \in {"serving", "None", "not_serving"}
    /\ UNCHANGED <<launcherVars, updateVars, logVars, listenerVars, installVars, last_down_logged, logs_subscribed, monitor_log,
                   server_detected, idle_conn, shutting, statusVars>>

\* A client opens a connection and sends nothing: its handler thread (one
\* per connection, not a daemon thread; no socket timeout is set anywhere)
\* blocks reading the request line.  (Once api_server.shutdown() has ended
\* the serve_forever loop no connection is accepted any more.)
ClientConnects ==
    /\ api_server = "serving"
    /\ \A t \in Threads : pc[t] # "sh_close"
    /\ ~idle_conn
    /\ idle_conn' = TRUE
    /\ UNCHANGED <<launcherVars, nonServerVars, api_server, shutting>>

\* The client closes that connection: the handler thread ends.
ClientCloses ==
    /\ idle_conn
    /\ idle_conn' = FALSE
    /\ UNCHANGED <<launcherVars, nonServerVars, api_server, shutting>>

\* shutdown() is called: by the thread POST /api/shutdown starts
\* (delayed_shutdown, 125-130) or by run()'s finally clause (1056-1058);
\* either way after run() has called start_api_server.
ShutdownBegin(t) ==
    /\ pc[t] = "idle"
    /\ mpc # "m_idle"
    /\ shutting = {}
    /\ shutting' = {t}
    /\ Goto(t, "sh_flag")
    /\ UNCHANGED <<nonServerVars, api_server, idle_conn>>
    /\ UNCHANGED <<args_cfg, comfyui_process, is_running, procs, elapsed,
                   orphan, stop_success, result, nRestarts>>

\* self.is_running = False
ShutdownFlag(t) ==
    /\ pc[t] = "sh_flag"
    /\ is_running' = FALSE
    /\ Goto(t, "sh_api")
    /\ UNCHANGED <<nonServerVars, serverVars>>
    /\ UNCHANGED <<args_cfg, comfyui_process, procs, elapsed,
                   orphan, stop_success, result, nRestarts>>

\* stop_api_server: `if self.api_server:` and self.api_server.shutdown(),
\* which returns once the serve_forever loop has ended and so never returns
\* for a server whose loop was never started.
StopApiShutdown(t) ==
    /\ pc[t] = "sh_api"
    /\ api_server # "not_serving"
    /\ Goto(t, IF api_server = "None" THEN "st_check" ELSE "sh_close")
    /\ UNCHANGED <<nonServerVars, serverVars>>
    /\ UNCHANGED <<args_cfg, comfyui_process, is_running, procs, elapsed,
                   orphan, stop_success, result, nRestarts>>

\* A server that keeps no list of its request threads (daemon_threads, or
\* block_on_close cleared) has none to join.
NoThreadsKept(t) == FALSE

\* Is a handler thread of the server still running?  (ThreadingMixIn keeps
\* its non-daemon request threads and server_close() joins them all.)
HandlerThreadsRunning(t) ==
    \/ idle_conn
    \/ \E u \in Threads \ {t} : pc[u] # "idle" /\ ~(u = "t1" /\ cpc = "c_restart")

\* self.api_server.server_close(), self.api_thread.join(timeout=5), log; then
\* shutdown() calls stop_comfyui().
StopApiClose(t) ==
    /\ pc[t] = "sh_close"
    /\ ~HandlerThreadsRunning(t)
    /\ api_server' = "closed"
    /\ Goto(t, "st_check")
    /\ UNCHANGED <<nonServerVars, idle_conn, shutting>>
    /\ UNCHANGED <<args_cfg, comfyui_process, is_running, procs, elapsed,
                   orphan, stop_success, result, nRestarts>>

\* stop_comfyui() has returned to shutdown(): log "shutdown complete".
ShutdownLog(t) ==
    /\ pc[t] = "rc_wait"
    /\ t \in shutting
    /\ Goto(t, "sh_done")
    /\ UNCHANGED <<nonServerVars, serverVars>>
    /\ UNCHANGED <<args_cfg, comfyui_process, is_running, procs, elapsed,
                   orphan, stop_success, result, nRestarts>>

\* The steps of stop_comfyui, for the thread inside shutdown()
StopStep(t) ==
    \/ StopCheck(t)
    \/ StopPoll(t)
    \/ StopTerminate(t)
    \/ StopWait(t)
    \/ StopKill(t)
    \/ StopKillWait(t)
    \/ StopClear(t)
    \/ StopFindOrphan(t)
    \/ StopOrphanWait(t)

shutdown(t) ==
    \/ ShutdownBegin(t)
    \/ ShutdownFlag(t)
    \/ StopApiShutdown(t)
    \/ StopApiClose(t)
    \/ (t \in shutting /\ StopStep(t))
    \/ ShutdownLog(t)

\* --------------------------------------------------------------------------
\* GET /status: do_GET (46-48) calls get_api_status (607-632) on the handler
\* thread of the connection, with no try block around it, and sends the dict.
\* The dict display is evaluated entry by entry; each `self.comfyui_process`
\* in it is a separate read of the attribute.
\* --------------------------------------------------------------------------
NoStatusRead == [process_running |-> "unset", process_pid |-> None]

InitStatus ==
    /\ gpc = "idle"
    /\ api_status = NoStatusRead

\* The handler thread goes on to control point l.
StatusGoto(l) == gpc' = l /\ UNCHANGED <<launcherVars, nonStatusVars>>

\* A GET /status request arrives; "responsive": self.is_comfyui_responsive() (617)
StatusBegin ==
    /\ gpc = "idle"
    /\ api_status' = NoStatusRead
    /\ StatusGoto("gs_running1")

\* 618: `self.comfyui_process and ...` (first read); a None handle is the value
StatusRunning1 ==
    /\ gpc = "gs_running1"
    /\ IF comfyui_process = None
       THEN /\ api_status' = [api_status EXCEPT !.process_running = "None"]
            /\ StatusGoto("gs_pid1")
       ELSE /\ UNCHANGED api_status
            /\ StatusGoto("gs_running2")

\* 618: `... self.comfyui_process.poll() is None` (second read): on a handle
\* cleared in between, None.poll raises AttributeError and the request fails.
StatusRunning2 ==
    /\ gpc = "gs_running2"
    /\ IF comfyui_process = None
       THEN /\ UNCHANGED api_status
            /\ StatusGoto("gs_failed")
       ELSE /\ api_status' = [api_status EXCEPT !.process_running =
                                  IF IsAlive(comfyui_process) THEN "True" ELSE "False"]
            /\ StatusGoto("gs_pid1")

\* 619: `... if self.comfyui_process else None` (the condition is read first)
StatusPid1 ==
    /\ gpc = "gs_pid1"
    /\ UNCHANGED api_status
    /\ StatusGoto(IF comfyui_process = None THEN "gs_done" ELSE "gs_pid2")

\* 619: `self.comfyui_process.pid` (read again): AttributeError on None
StatusPid2 ==
    /\ gpc = "gs_pid2"
    /\ IF comfyui_process = None
       THEN /\ UNCHANGED api_status
            /\ StatusGoto("gs_failed")
       ELSE /\ api_status' = [api_status EXCEPT !.process_pid = comfyui_process]
            /\ StatusGoto("gs_done")

\* The response is sent (or the request has failed) and the thread ends.
StatusEnd ==
    /\ gpc \in {"gs_done", "gs_failed"}
    /\ api_status' = NoStatusRead
    /\ StatusGoto("idle")

get_api_status ==
    \/ StatusBegin
    \/ StatusRunning1
    \/ StatusRunning2
    \/ StatusPid1
    \/ StatusPid2
    \/ StatusEnd

\* ==========================================================================
\* UpdateService (update_service.py)
\* ==========================================================================

\* Bounds of the model
MaxCalls == 2                \* start_download calls issued in one behaviour

NChunks == 2                 \* chunks response.iter_content delivers per download

Handlers == {"h1", "h2"}     \* handler threads of concurrent control-API connections
Tasks == 1..MaxCalls         \* every call may start a task

NoError == <<>>              \* last_error = None
NoHash == <<>>               \* expected_hash = None (or empty: both are falsy)

\* Names inside the staging directory ("d/" names a directory)
S_update_zip == <<"u","p","d","a","t","e",".","z","i","p">>
S_temp_extract == <<"_","t","e","m","p","_","e","x","t","r","a","c","t">>
S_slash == <<"/">>

\* Texts of the exceptions the download task can end with
E_integrity == <<"I","n","t","e","g","r","i","t","y"," ","c","h","e","c","k"," ","f","a","i","l","e","d","!">>
E_network == <<"C","o","n","n","e","c","t","i","o","n"," ","e","r","r","o","r">>
E_nofile == <<"N","o"," ","s","u","c","h"," ","f","i","l","e"," ","o","r"," ","d","i","r","e","c","t","o","r","y">>
E_notdir == <<"N","o","t"," ","a"," ","d","i","r","e","c","t","o","r","y">>
E_exists == <<"D","e","s","t","i","n","a","t","i","o","n"," ","p","a","t","h"," ","a","l","r","e","a","d","y"," ","e","x","i","s","t","s">>
E_badzip == <<"F","i","l","e"," ","i","s"," ","n","o","t"," ","a"," ","z","i","p"," ","f","i","l","e">>

\* The packages a download URL can serve, each by the entry names of its zip
\* (namelist).  1: everything under one root folder, with the folder's own
\* entry, as release archives are packed.  2: a flat package.  3: two files
\* of one folder whose names share leading characters.  4: two top-level
\* files whose names share a leading character.  5: two files in one
\* sub-folder of the root folder, without directory entries.
S_version_json == <<"v","e","r","s","i","o","n",".","j","s","o","n">>

Archives ==
    << << <<"p","/">>, <<"p","/">> \o S_version_json, <<"p","/","w","/","a">> >>,
       << S_version_json, <<"w","/","a">> >>,
       << <<"w","/","a","b">>, <<"w","/","a","c">> >>,
       << <<"v","a">>, <<"v","b">> >>,
       << <<"p","/","w","/","a">>, <<"p","/","w","/","b">> >> >>

\* hashlib.sha256(payload).hexdigest(): lower-case hex, one digest per payload
\* (shortened to three digits).
HexDigest(a) ==
    << <<"3","a","f">>, <<"9","c","0">>, <<"e","7","1">>,
       <<"5","b","2">>, <<"d","0","4">> >>[a]

\* The (payload, sha256) pairs a start_download call may carry.  The hash is
\* the payload's digest in upper case, another payload's digest, or absent.
Requests ==
    { [a |-> 1, expected |-> <<"3","A","F">>],
      [a |-> 2, expected |-> <<"3","A","F">>],
      [a |-> 2, expected |-> NoHash] }

\* _download_task's integrity test:
\*   calculated_hash.lower() != expected_hash.lower()
HashMismatch(calculated, expected) == Lower(calculated) # Lower(expected)

\* Does the task's download fail verification?  (`if expected_hash:` skips
\* the test for None and for the empty string.)
FailsVerification(r) == r.expected # NoHash /\ HashMismatch(HexDigest(r.a), r.expected)

\* str.startswith
StartsWith(s, pre) == Len(pre) <= Len(s) /\ SubSeq(s, 1, Len(pre)) = pre

\* os.path.commonprefix: the longest string every name starts with
\* (character by character, not by path component); '' for an empty list.
CommonPrefix(names) ==
    IF Len(names) = 0 THEN <<>>
    ELSE LET first == names[1]
             ok(k) == \A i \in 1..Len(names) :
                          Len(names[i]) >= k /\ SubSeq(names[i], 1, k) = SubSeq(first, 1, k)
             n == CHOOSE k \in 0..Len(first) :
                      ok(k) /\ \A k2 \in 0..Len(first) : ok(k2) => k2 <= k
         IN SubSeq(first, 1, n)

\* The condition of the hoisting branch:
\*   root_folder and not any(not f.startswith(root_folder) for f in file_list)
HasRootFolder(names) ==
    LET root_folder == CommonPrefix(names)
    IN /\ root_folder # <<>>
       /\ ~ \E i \in 1..Len(names) : ~StartsWith(names[i], root_folder)

\* s without its first n characters
Drop(s, n) == SubSeq(s, n + 1, Len(s))

\* A path without trailing slashes (joining paths normalises them away).
RECURSIVE StripSlash(_)
StripSlash(s) ==
    IF Len(s) > 0 /\ s[Len(s)] = "/" THEN StripSlash(SubSeq(s, 1, Len(s) - 1)) ELSE s

\* The directories a path lies in.
Parents(q) == {SubSeq(q, 1, i) : i \in {j \in 1..(Len(q) - 1) : q[j] = "/"}}

\* zip_ref.extractall(dir): every entry, and the directories leading to it,
\* appear below dir (given as "" or "name/").
ExtractAll(names, dir) ==
    ({dir} \ {<<>>})
    \cup UNION {{dir \o names[i]} \cup Parents(dir \o names[i]) : i \in 1..Len(names)}

\* temp_extract_dir / root_folder, as a directory name
temp_extract_dir == S_temp_extract \o S_slash
ActualRoot(root_folder) == temp_extract_dir \o StripSlash(root_folder)

\* Path.iterdir() of directory d ("name/"): the entries directly inside it.
IterDir(fs, d) ==
    {q \in fs : /\ StartsWith(q, d) /\ Len(q) > Len(d)
                /\ \A i \in (Len(d) + 1)..(Len(q) - 1) : q[i] # "/"}

\* shutil.move(item, staging_dir) of an entry of directory d: the entry and
\* everything below it are renamed into the staging directory itself.
MoveUp(fs, d, item) ==
    {q \in fs : ~StartsWith(q, item)} \cup {Drop(q, Len(d)) : q \in {r \in fs : StartsWith(r, item)}}

\* Would the move find its destination taken?  (os.path.exists(real_dst))
MoveConflict(fs, d, item) ==
    LET name == StripSlash(Drop(item, Len(d)))
    IN name \in fs \/ (name \o S_slash) \in fs

\* shutil.rmtree(dir)
RmTree(fs, d) == {q \in fs : ~StartsWith(q, d)}

\* The payload a reader finds in update.zip: every chunk position written,
\* all by downloads of one payload; 0 when the file is not a readable zip.
ZipPayload ==
    IF Len(zipdata) = NChunks /\ zipdata[1] # 0 /\ \A i \in 1..NChunks : zipdata[i] = zipdata[1]
    THEN zipdata[1] ELSE 0

\* f.write(chunk) at the writer's own file offset
WriteChunk(data, pos, a) ==
    [i \in 1..(IF Len(data) > pos THEN Len(data) ELSE pos) |->
        IF i = pos THEN a ELSE IF i <= Len(data) THEN data[i] ELSE 0]

\* get_update_status's derived status
StatusOf(err, downloading, exists, fs) ==
    IF err # NoError THEN "error"
    ELSE IF downloading THEN "downloading"
    ELSE IF exists /\ fs # {}
         THEN (IF S_update_zip \in fs THEN "downloading" ELSE "ready_to_restart")
         ELSE "idle"

get_update_status == StatusOf(last_error, is_downloading, staging_exists, staging)

NoArg == [a |-> 0, expected |-> NoHash]
NoTask == [a |-> 0, expected |-> NoHash, total |-> 0, chunks |-> 0, zip |-> 0, err |-> NoError]

InitUpdate ==
    /\ is_downloading = FALSE
    /\ download_progress = 0
    /\ last_error = NoError
    /\ staging_exists = FALSE
    /\ staging = {}
    /\ hpc = [h \in Handlers |-> "idle"]
    /\ harg = [h \in Handlers |-> NoArg]
    /\ hret = [h \in Handlers |-> "none"]
    /\ tpc = [k \in Tasks |-> "unborn"]
    /\ task = [k \in Tasks |-> NoTask]
    /\ zipdata = <<>>
    /\ zipfd = [k \in Tasks |-> FALSE]
    /\ extracted = {}
    /\ nCalls = 0
    /\ stale = {}

\* Per-variable frames of the update manager's steps
HandlerLocals == <<hpc, harg, hret, nCalls>>
StagingVars == <<staging_exists, staging, zipdata, zipfd, extracted>>
ServiceFlags == <<is_downloading, download_progress, last_error>>

\* The task a Thread(target=self._download_task) started now would be.
NewTask == CHOOSE k \in Tasks : tpc[k] = "unborn" /\ \A j \in Tasks : tpc[j] = "unborn" => k <= j

\* do_POST, path /api/update/download: a connection's handler thread reads
\* asset_url and sha256 from the body and calls start_download.
DownloadRequest(h) ==
    /\ hpc[h] = "idle"
    /\ UNCHANGED nonUpdateVars
    /\ nCalls < MaxCalls
    /\ \E r \in Requests :
        /\ harg' = [harg EXCEPT ![h] = r]
        /\ hpc' = [hpc EXCEPT ![h] = "sd_check"]
        /\ hret' = [hret EXCEPT ![h] = "none"]
        /\ nCalls' = nCalls + 1
    /\ UNCHANGED <<ServiceFlags, StagingVars, tpc, task, stale>>

\* The same request as the only one of the run, for any of the packages and
\* without a sha256 in the body (expected_hash is None).
ExtractRequests == {[a |-> i, expected |-> NoHash] : i \in 1..Len(Archives)}

SingleDownloadRequest(h) ==
    /\ hpc[h] = "idle"
    /\ UNCHANGED nonUpdateVars
    /\ nCalls = 0
    /\ \E r \in ExtractRequests :
        /\ harg' = [harg EXCEPT ![h] = r]
        /\ hpc' = [hpc EXCEPT ![h] = "sd_check"]
        /\ hret' = [hret EXCEPT ![h] = "none"]
        /\ nCalls' = nCalls + 1
    /\ UNCHANGED <<ServiceFlags, StagingVars, tpc, task, stale>>

\* start_download, one attribute access per step; the handler thread then
\* sends the response and ends.
start_download(h) ==
    /\ hpc[h] \in {"sd_check", "sd_flag", "sd_progress", "sd_error", "sd_spawn"}
    /\ UNCHANGED nonUpdateVars
    /\ UNCHANGED <<StagingVars, harg, nCalls>>
    /\ stale' = IF hpc[h] = "sd_spawn" \/ (hpc[h] = "sd_check" /\ is_downloading)
                THEN stale \ {h}
                ELSE stale
    /\ IF hpc[h] = "sd_check"
       THEN \* if self.is_downloading: return False
            /\ IF is_downloading
               THEN /\ hpc' = [hpc EXCEPT ![h] = "idle"]
                    /\ hret' = [hret EXCEPT ![h] = "False"]
               ELSE /\ hpc' = [hpc EXCEPT ![h] = "sd_flag"]
                    /\ UNCHANGED hret
            /\ UNCHANGED <<ServiceFlags, tpc, task>>
       ELSE IF hpc[h] = "sd_flag"
       THEN \* self.is_downloading = True
            /\ is_downloading' = TRUE
            /\ hpc' = [hpc EXCEPT ![h] = "sd_progress"]
            /\ UNCHANGED <<download_progress, last_error, hret, tpc, task>>
       ELSE IF hpc[h] = "sd_progress"
       THEN \* self.download_progress = 0
            /\ download_progress' = 0
            /\ hpc' = [hpc EXCEPT ![h] = "sd_error"]
            /\ UNCHANGED <<is_downloading, last_error, hret, tpc, task>>
       ELSE IF hpc[h] = "sd_error"
       THEN \* self.last_error = None
            /\ last_error' = NoError
            /\ hpc' = [hpc EXCEPT ![h] = "sd_spawn"]
            /\ UNCHANGED <<is_downloading, download_progress, hret, tpc, task>>
       ELSE \* thread.start(); return True
            /\ tpc' = [tpc EXCEPT ![NewTask] = "t_clean"]
            /\ task' = [task EXCEPT ![NewTask] =
                          [NoTask EXCEPT !.a = harg[h].a, !.expected = harg[h].expected]]
            /\ hpc' = [hpc EXCEPT ![h] = "idle"]
            /\ hret' = [hret EXCEPT ![h] = "True"]
            /\ UNCHANGED ServiceFlags

\* Control transfer inside _download_task; when the task returns from its
\* except clause, the start_download calls that have already tested the busy
\* flag are noted.
TaskGoto(k, l) ==
    /\ tpc' = [tpc EXCEPT ![k] = l]
    /\ stale' = IF l = "t_failed"
                THEN {h \in Handlers : hpc[h] \notin {"idle", "sd_check"}}
                ELSE stale

\* An exception leaves the try block for the handler at `except Exception`.
Raise(k, e) ==
    /\ tpc' = [tpc EXCEPT ![k] = "t_exc_error"]
    /\ task' = [task EXCEPT ![k].err = e]
    /\ UNCHANGED stale

\* if self.staging_dir.exists(): shutil.rmtree(self.staging_dir)
TaskClean(k) ==
    /\ tpc[k] = "t_clean"
    /\ UNCHANGED nonUpdateVars
    /\ IF staging_exists
       THEN /\ staging_exists' = FALSE
            /\ staging' = {}
            /\ zipdata' = <<>>
            /\ zipfd' = [j \in Tasks |-> FALSE]
       ELSE UNCHANGED <<staging_exists, staging, zipdata, zipfd>>
    /\ TaskGoto(k, "t_mkdir")
    /\ UNCHANGED <<ServiceFlags, HandlerLocals, task, extracted>>

\* self.staging_dir.mkdir(parents=True, exist_ok=True)
TaskMkdir(k) ==
    /\ tpc[k] = "t_mkdir"
    /\ UNCHANGED nonUpdateVars
    /\ staging_exists' = TRUE
    /\ TaskGoto(k, "t_get")
    /\ UNCHANGED <<ServiceFlags, HandlerLocals, task, staging, zipdata, zipfd, extracted>>

\* response = requests.get(...); total_size = int(content-length or 0)
TaskGet(k) ==
    /\ tpc[k] = "t_get"
    /\ UNCHANGED nonUpdateVars
    /\ \E ok \in BOOLEAN, total_size \in {0, NChunks} :
        IF ok
        THEN /\ task' = [task EXCEPT ![k].total = total_size]
             /\ TaskGoto(k, "t_open")
        ELSE /\ total_size = 0
             /\ Raise(k, E_network)
    /\ UNCHANGED <<ServiceFlags, HandlerLocals, StagingVars>>

\* with open(temp_zip, 'wb') as f: creates or truncates staging/update.zip
TaskOpen(k) ==
    /\ tpc[k] = "t_open"
    /\ UNCHANGED nonUpdateVars
    /\ IF staging_exists
       THEN /\ staging' = staging \cup {S_update_zip}
            /\ zipdata' = <<>>
            /\ zipfd' = [zipfd EXCEPT ![k] = TRUE]
            /\ TaskGoto(k, "t_chunk")
            /\ UNCHANGED task
       ELSE /\ Raise(k, E_nofile)
            /\ UNCHANGED <<staging, zipdata, zipfd>>
    /\ UNCHANGED <<ServiceFlags, HandlerLocals, staging_exists, extracted>>

\* for chunk in response.iter_content(...): write, hash, count, progress.
\* The loop ends (and the file is closed) when the stream is exhausted.
TaskChunk(k) ==
    /\ tpc[k] = "t_chunk"
    /\ UNCHANGED nonUpdateVars
    /\ IF task[k].chunks < NChunks
       THEN \E ok \in BOOLEAN :
            IF ok
            THEN /\ task' = [task EXCEPT ![k].chunks = @ + 1]
                 /\ zipdata' = IF zipfd[k]
                               THEN WriteChunk(zipdata, task[k].chunks + 1, task[k].a)
                               ELSE zipdata
                 /\ download_progress' =
                        IF task[k].total > 0
                        THEN ((task[k].chunks + 1) * 100) \div task[k].total
                        ELSE download_progress
                 /\ UNCHANGED <<tpc, stale>>
            ELSE /\ Raise(k, E_network)
                 /\ UNCHANGED <<zipdata, download_progress>>
       ELSE /\ TaskGoto(k, "t_verify")
            /\ UNCHANGED <<task, zipdata, download_progress>>
    /\ UNCHANGED <<is_downloading, last_error, HandlerLocals, staging_exists, staging,
                   zipfd, extracted>>

\* 3. Hash Verification
TaskVerify(k) ==
    /\ tpc[k] = "t_verify"
    /\ UNCHANGED nonUpdateVars
    /\ IF task[k].expected # NoHash
          /\ HashMismatch(HexDigest(task[k].a), task[k].expected)
       THEN Raise(k, E_integrity)
       ELSE TaskGoto(k, "t_extract") /\ UNCHANGED task
    /\ UNCHANGED <<ServiceFlags, HandlerLocals, StagingVars>>

\* 4. Smart Extraction: open the zip, choose the branch, extractall
TaskExtract(k) ==
    /\ tpc[k] = "t_extract"
    /\ UNCHANGED nonUpdateVars
    /\ IF S_update_zip \notin staging
       THEN Raise(k, E_nofile) /\ UNCHANGED <<staging, extracted>>
       ELSE IF ZipPayload = 0
       THEN Raise(k, E_badzip) /\ UNCHANGED <<staging, extracted>>
       ELSE LET file_list == Archives[ZipPayload]
            IN /\ IF HasRootFolder(file_list)
                  THEN /\ staging' = staging \cup ExtractAll(file_list, temp_extract_dir)
                       /\ TaskGoto(k, "t_hoist")
                  ELSE /\ staging' = staging \cup ExtractAll(file_list, <<>>)
                       /\ TaskGoto(k, "t_rmzip")
               /\ task' = [task EXCEPT ![k].zip = ZipPayload]
               /\ extracted' = extracted \cup {k}
    /\ UNCHANGED <<ServiceFlags, HandlerLocals, staging_exists, zipdata, zipfd>>

\* for item in actual_root.iterdir(): shutil.move(str(item), str(self.staging_dir))
TaskHoist(k) ==
    /\ tpc[k] = "t_hoist"
    /\ UNCHANGED nonUpdateVars
    /\ LET actual_root == ActualRoot(CommonPrefix(Archives[task[k].zip]))
           d == actual_root \o S_slash
       IN IF d \notin staging
          THEN /\ Raise(k, IF actual_root \in staging THEN E_notdir ELSE E_nofile)
               /\ UNCHANGED staging
          ELSE IF IterDir(staging, d) = {}
          THEN TaskGoto(k, "t_rmtemp") /\ UNCHANGED <<task, staging>>
          ELSE \E item \in IterDir(staging, d) :
               IF MoveConflict(staging, d, item)
               THEN Raise(k, E_exists) /\ UNCHANGED staging
               ELSE /\ staging' = MoveUp(staging, d, item)
                    /\ UNCHANGED <<tpc, task, stale>>
    /\ UNCHANGED <<ServiceFlags, HandlerLocals, staging_exists, zipdata, zipfd, extracted>>

\* shutil.rmtree(temp_extract_dir)
TaskRmTemp(k) ==
    /\ tpc[k] = "t_rmtemp"
    /\ UNCHANGED nonUpdateVars
    /\ IF temp_extract_dir \in staging
       THEN /\ staging' = RmTree(staging, temp_extract_dir)
            /\ TaskGoto(k, "t_rmzip")
            /\ UNCHANGED task
       ELSE Raise(k, E_nofile) /\ UNCHANGED staging
    /\ UNCHANGED <<ServiceFlags, HandlerLocals, staging_exists, zipdata, zipfd, extracted>>

\* os.remove(temp_zip)
TaskRmZip(k) ==
    /\ tpc[k] = "t_rmzip"
    /\ UNCHANGED nonUpdateVars
    /\ IF S_update_zip \in staging
       THEN /\ staging' = staging \ {S_update_zip}
            /\ zipdata' = <<>>
            /\ zipfd' = [j \in Tasks |-> FALSE]
            /\ TaskGoto(k, "t_flag")
            /\ UNCHANGED task
       ELSE Raise(k, E_nofile) /\ UNCHANGED <<staging, zipdata, zipfd>>
    /\ UNCHANGED <<ServiceFlags, HandlerLocals, staging_exists, extracted>>

\* self.is_downloading = False        (success path)
TaskFlag(k) ==
    /\ tpc[k] = "t_flag"
    /\ UNCHANGED nonUpdateVars
    /\ is_downloading' = FALSE
    /\ TaskGoto(k, "t_progress")
    /\ UNCHANGED <<download_progress, last_error, HandlerLocals, StagingVars, task>>

\* self.download_progress = 100; the task returns
TaskProgress(k) ==
    /\ tpc[k] = "t_progress"
    /\ UNCHANGED nonUpdateVars
    /\ download_progress' = 100
    /\ TaskGoto(k, "t_done")
    /\ UNCHANGED <<is_downloading, last_error, HandlerLocals, StagingVars, task>>

\* except Exception as e: self.last_error = str(e)
TaskExceptError(k) ==
    /\ tpc[k] = "t_exc_error"
    /\ UNCHANGED nonUpdateVars
    /\ last_error' = task[k].err
    /\ TaskGoto(k, "t_exc_flag")
    /\ UNCHANGED <<is_downloading, download_progress, HandlerLocals, StagingVars, task>>

\* self.is_downloading = False        (failure path); the task returns
TaskExceptFlag(k) ==
    /\ tpc[k] = "t_exc_flag"
    /\ UNCHANGED nonUpdateVars
    /\ is_downloading' = FALSE
    /\ TaskGoto(k, "t_failed")
    /\ UNCHANGED <<download_progress, last_error, HandlerLocals, StagingVars, task>>

\* One step of the thread running _download_task
download_task(k) ==
    \/ TaskClean(k) \/ TaskMkdir(k) \/ TaskGet(k) \/ TaskOpen(k) \/ TaskChunk(k)
    \/ TaskVerify(k) \/ TaskExtract(k) \/ TaskHoist(k) \/ TaskRmTemp(k) \/ TaskRmZip(k)
    \/ TaskFlag(k) \/ TaskProgress(k) \/ TaskExceptError(k) \/ TaskExceptFlag(k)


\* ==========================================================================
\* Log buffer (launcher_service.py: log, get_recent_logs)
\*
\* log() also prints the line, counts it in log_stats and appends it to the
\* log file; none of these touches log_buffer and they are not part of the
\* state modelled here.
\* ==========================================================================
max_log_buffer == 200        \* self.max_log_buffer
DefaultLimit == 50           \* get_recent_logs(limit=50)

\* Bounds of the model
MaxAppends == 202            \* append() calls in one behaviour
FirstRead == 198             \* get_recent_logs calls are explored from this many appends on

Writers == {"w1", "w2"}      \* threads that call log(): handler, monitor, restart threads
Limits == {DefaultLimit, 0}

\* list.pop(0)
Pop0(buf) == Tail(buf)

\* self.log_buffer[-limit:]
LastN(buf, limit) ==
    IF Len(buf) <= limit THEN buf ELSE SubSeq(buf, Len(buf) - limit + 1, Len(buf))

NoResponse == [limit |-> 0, logs |-> <<>>, total_count |-> 0, current_size |-> 0]

InitLog ==
    /\ log_buffer = <<>>
    /\ wpc = [w \in Writers |-> "idle"]
    /\ nAppends = 0
    /\ nReturned = 0
    /\ rpc = "idle"
    /\ response = NoResponse

\* log(message, level), one access to self.log_buffer per step:
\*   self.log_buffer.append(log_entry)
\*   if len(self.log_buffer) > self.max_log_buffer:
\*       self.log_buffer.pop(0)
log(w) ==
    /\ UNCHANGED nonLogVars
    /\ UNCHANGED <<rpc, response>>
    /\ IF wpc[w] = "idle"
       THEN /\ nAppends < MaxAppends
            /\ log_buffer' = Append(log_buffer, nAppends + 1)
            /\ nAppends' = nAppends + 1
            /\ wpc' = [wpc EXCEPT ![w] = "log_len"]
            /\ UNCHANGED nReturned
       ELSE IF wpc[w] = "log_len"
       THEN /\ IF Len(log_buffer) > max_log_buffer
               THEN wpc' = [wpc EXCEPT ![w] = "log_pop"] /\ UNCHANGED nReturned
               ELSE wpc' = [wpc EXCEPT ![w] = "idle"] /\ nReturned' = nReturned + 1
            /\ UNCHANGED <<log_buffer, nAppends>>
       ELSE /\ wpc[w] = "log_pop"
            /\ Len(log_buffer) > 0
            /\ log_buffer' = Pop0(log_buffer)
            /\ wpc' = [wpc EXCEPT ![w] = "idle"]
            /\ nReturned' = nReturned + 1
            /\ UNCHANGED nAppends

\* get_recent_logs(limit): the slice, then len(self.log_buffer) twice.  With
\* limit <= 0 "logs" is the list object itself, serialised when the result is
\* sent.
get_recent_logs ==
    /\ UNCHANGED nonLogVars
    /\ UNCHANGED <<log_buffer, wpc, nAppends, nReturned>>
    /\ IF rpc = "idle"
       THEN \E limit \in Limits :
            /\ nAppends >= FirstRead
            /\ response' = [NoResponse EXCEPT
                              !.limit = limit,
                              !.logs = IF limit > 0 THEN LastN(log_buffer, limit) ELSE <<>>]
            /\ rpc' = "total_count"
       ELSE IF rpc = "total_count"
       THEN /\ response' = [response EXCEPT !.total_count = Len(log_buffer)]
            /\ rpc' = "current_size"
       ELSE IF rpc = "current_size"
       THEN /\ response' = [response EXCEPT !.current_size = Len(log_buffer)]
            /\ rpc' = "send"
       ELSE /\ rpc = "send"
            /\ response' = [response EXCEPT
                              !.logs = IF response.limit > 0 THEN @ ELSE log_buffer]
            /\ rpc' = "idle"

\* ==========================================================================
\* DualProtocolServer.get_request (launcher_service.py)
\* ==========================================================================
TLS_HANDSHAKE == 22          \* 0x16, the TLS "Handshake" record type

MaxConns == 3                \* bound of the model: connections accepted in one behaviour

\* What recv(6, MSG_PEEK) can deliver from a new connection: nothing (the peer
\* closed), the start of a TLS record, or the start of a plaintext request.
PeekData ==
    { <<>>,
      <<22, 3, 1>>,          \* TLS 1.x ClientHello
      <<22>>,                \* only the first byte has arrived
      <<71, 69, 84>>,        \* "GET"
      <<80, 79, 83>>,        \* "POST"
      <<21, 3, 1>>,          \* TLS alert record
      <<0, 22>> }            \* 0x16 later than the first byte

NoPeek == <<-1>>             \* peek_bytes was never assigned

\* data: what the peer sends first; blocked: the listener's blocking call on
\* this socket (recv, or the handshake inside wrap_socket) waits for the peer.
NoConn == [data |-> <<>>, peek_bytes |-> NoPeek, handshake |-> FALSE, blocked |-> FALSE]

\* A handshake error that nothing catches (for comparison): it leaves
\* get_request and, not being an OSError for _handle_request_noblock, the
\* serve_forever loop.
HandshakeErrorRaised == "raised"

\* `except Exception as ssl_err: pass` (243-245), then line 248: the plain
\* socket is returned.
HandshakeErrorCaught == "plain"

\* A detection that only asks whether anything arrived (for comparison).
AnyDataIsTls(peek_bytes) == Len(peek_bytes) > 0

\* len(peek_bytes) > 0 and peek_bytes[0] == 0x16
IsTlsHandshake(peek_bytes) == Len(peek_bytes) > 0 /\ peek_bytes[1] = TLS_HANDSHAKE

InitListener ==
    /\ ssl_context \in {"None", "SSLContext"}
    /\ lpc = "accept"
    /\ conn = NoConn
    /\ requests = <<>>
    /\ backlog = 0

\* return (sock, fromaddr): the connection goes to a handler thread (the
\* serving thread starts it and calls get_request again); an exception
\* leaving get_request ends the serving thread's loop.
Return(kind) ==
    IF kind = "raised"
    THEN lpc' = "crashed" /\ UNCHANGED requests
    ELSE /\ requests' = Append(requests, [kind |-> kind, peek_bytes |-> conn'.peek_bytes,
                                          handshake |-> conn'.handshake])
         /\ lpc' = "accept"

\* The connections of one behaviour: returned, in get_request, or waiting.
Connections == Len(requests) + backlog + (IF lpc \in {"peek", "wrap"} THEN 1 ELSE 0)

\* A client connects to the listening socket: the kernel completes the
\* connection and queues it for accept().
ClientConnect ==
    /\ Connections < MaxConns
    /\ backlog' = backlog + 1
    /\ UNCHANGED <<nonListenerVars, ssl_context, lpc, conn, requests>>

\* The peer of the connection get_request is working on sends what the
\* listener is waiting for (or closes).
ClientSends ==
    /\ lpc \in {"peek", "wrap"}
    /\ conn.blocked
    /\ conn' = [conn EXCEPT !.blocked = FALSE]
    /\ UNCHANGED <<nonListenerVars, ssl_context, lpc, requests, backlog>>

\* newsock, fromaddr = self.socket.accept(); if self.ssl_context is None: return.
\* The peer may or may not have sent anything by now.
Accept ==
    /\ lpc = "accept"
    /\ UNCHANGED nonListenerVars
    /\ backlog > 0
    /\ backlog' = backlog - 1
    /\ \E data \in PeekData, silent \in BOOLEAN :
        /\ conn' = [NoConn EXCEPT !.data = data,
                                  !.blocked = (silent /\ ssl_context # "None")]
        /\ IF ssl_context = "None"
           THEN Return("plain")
           ELSE lpc' = "peek" /\ UNCHANGED requests
    /\ UNCHANGED ssl_context

\* peek_bytes = newsock.recv(6, socket.MSG_PEEK), then the test of the first
\* byte; an exception of recv is caught by the outer handler.
\* The socket is a blocking one (no timeout is set on the listening socket or
\* on newsock): recv returns when the peer has sent something or closed.
Peek ==
    /\ lpc = "peek"
    /\ UNCHANGED nonListenerVars
    /\ ~conn.blocked
    /\ \E recv_ok \in BOOLEAN, stalls \in BOOLEAN :
        IF recv_ok
        THEN /\ IF IsTlsHandshake(conn.data)
                THEN /\ conn' = [conn EXCEPT !.peek_bytes = conn.data, !.blocked = stalls]
                     /\ lpc' = "wrap" /\ UNCHANGED requests
                ELSE /\ conn' = [conn EXCEPT !.peek_bytes = conn.data]
                     /\ Return("plain")
        ELSE /\ conn' = conn
             /\ Return("plain")
    /\ UNCHANGED <<ssl_context, backlog>>

\* ssl_sock = self.ssl_context.wrap_socket(newsock, server_side=True); a
\* failed handshake is swallowed and the plain socket is returned.
\* wrap_socket performs the whole handshake (do_handshake_on_connect) on the
\* blocking socket: it returns, or raises, when the peer has done its part.
Wrap ==
    /\ lpc = "wrap"
    /\ UNCHANGED nonListenerVars
    /\ ~conn.blocked
    /\ conn' = [conn EXCEPT !.handshake = TRUE]
    /\ \E handshake_ok \in BOOLEAN :
        Return(IF handshake_ok THEN "ssl" ELSE HandshakeErrorCaught)
    /\ UNCHANGED <<ssl_context, backlog>>

get_request == Accept \/ Peek \/ Wrap

\* ==========================================================================
\* Installation root: the recorded version and the release check
\* (update_service.py 23-73).
\* ==========================================================================
V_0_0_0 == <<"0",".","0",".","0">>
V_1_2_9 == <<"1",".","2",".","9">>
V_1_3_0 == <<"1",".","3",".","0">>
V_1_9_0 == <<"1",".","9",".","0">>
V_1_10_0 == <<"1",".","1","0",".","0">>

\* version.json is absent (or unreadable, or has no "version" key).
NoFile == <<"?">>

\* The versions version.json may record.
InstalledVersions ==
    { NoFile, V_0_0_0, V_1_2_9, V_1_3_0, V_1_9_0, V_1_10_0,
      <<"1",".","2">>, <<"1",".","2",".","0">>, <<"1",".","0","2",".","9">>,
      <<"2">>, <<"1",".","3",".","b">> }

\* The tag_name values the release feed may report.
Tags ==
    { <<"v">> \o V_1_2_9, <<"v">> \o V_1_3_0, <<"v">> \o V_1_10_0, V_1_2_9, V_1_9_0,
      V_0_0_0, <<"1",".","2">>, <<"1",".","2",".","0">>, <<"v","2">>,
      <<"1",".","3",".","b">>, <<"1",".",".","3">>, <<>> }

\* str.replace("v", "")
RemoveV(s) == SelectSeq(s, LAMBDA c : c # "v")

\* str.split('.')
RECURSIVE Split(_)
Split(s) ==
    LET dots == {i \in 1..Len(s) : s[i] = "."}
    IN IF dots = {} THEN <<s>>
       ELSE LET i == CHOOSE d \in dots : \A e \in dots : d <= e
            IN <<SubSeq(s, 1, i - 1)>> \o Split(SubSeq(s, i + 1, Len(s)))

\* Does int(x) return (rather than raise ValueError)?  For strings of
\* digits, letters and dots: exactly the non-empty digit strings.
IntParses(x) == Len(x) > 0 /\ \A i \in 1..Len(x) : \E d \in 1..10 : Digits[d] = x[i]

\* int(x) for a digit string
RECURSIVE StrToInt(_)
StrToInt(x) ==
    IF Len(x) = 0 THEN 0
    ELSE 10 * StrToInt(SubSeq(x, 1, Len(x) - 1))
         + ((CHOOSE d \in 1..10 : Digits[d] = x[Len(x)]) - 1)

\* parse_version(v) = [int(x) for x in v.split('.')]
VersionParses(v) == \A i \in 1..Len(Split(v)) : IntParses(Split(v)[i])
parse_version(v) == [i \in 1..Len(Split(v)) |-> StrToInt(Split(v)[i])]

\* a != b on lists
ListDiffers(a, b) == a # b

\* a > b on lists of integers: decided by the first position where they
\* differ; when there is none, the longer list is the greater.
ListGreater(a, b) ==
    LET n == IF Len(a) < Len(b) THEN Len(a) ELSE Len(b)
        diff == {i \in 1..n : a[i] # b[i]}
    IN IF diff = {} THEN Len(a) > Len(b)
       ELSE LET i == CHOOSE d \in diff : \A e \in diff : d <= e
            IN a[i] > b[i]

\* _is_newer_version
is_newer_version(latest, current) ==
    IF VersionParses(latest) /\ VersionParses(current)
    THEN ListGreater(parse_version(latest), parse_version(current))
    ELSE latest # current

\* get_current_version
get_current_version == IF version_file = NoFile THEN V_0_0_0 ELSE version_file

NoInfo == [kind |-> "none"]

\* The installed extension's files besides version.json: a folder w with two
\* files and a file x.
InstalledTree ==
    { <<<<"w","/">>, "old">>, <<<<"w","/","a">>, "old">>, <<<<"w","/","z">>, "old">>,
      <<<<"x">>, "old">> }

\* The version recorded by the version.json of the packages a download serves.
StagedVersion == V_1_3_0
NoStatus == [status |-> "none"]

InitInstall ==
    /\ version_file \in InstalledVersions
    /\ update_info = NoInfo
    /\ update_status = NoStatus
    /\ install = InstalledTree
    /\ bpc = "idle"
    /\ todo = {}
    /\ boot_result = "none"

\* check_for_update (GET /api/update/check): the feed answers with a status
\* code and, for 200, a release whose tag_name is one of Tags.
check_for_update ==
    /\ UNCHANGED nonInstallVars
    /\ \E status_code \in {200, 403} : \E tag_name \in Tags :
        IF status_code = 200
        THEN LET latest_version == RemoveV(tag_name)
                 current_version == get_current_version
             IN update_info' = [kind |-> "release",
                                has_update |-> is_newer_version(latest_version, current_version),
                                latest_version |-> latest_version,
                                current_version |-> current_version]
        ELSE update_info' = [kind |-> "error"]
    /\ UNCHANGED <<version_file, update_status, bootVars>>

\* GET /api/update/status: get_update_status (155-179).  The result is kept
\* together with the flags and the directory listing the call read.
StatusRequest ==
    /\ UNCHANGED nonInstallVars
    /\ update_status' = [status |-> get_update_status,
                         last_error |-> last_error,
                         is_downloading |-> is_downloading,
                         populated |-> staging_exists /\ staging # {},
                         residual |-> S_update_zip \in staging,
                         staging_ready |-> staging_exists /\ staging # {}]
    /\ UNCHANGED <<version_file, update_info, bootVars>>

\* The supervisor process ends (killed, crashed or shut down) and is started
\* again: its threads are gone, UpdateService.__init__ (13-21) builds a new
\* object, and the staging directory is whatever the old process left on disk.
SupervisorRestart ==
    /\ UNCHANGED nonUpdateVars
    /\ is_downloading' = FALSE
    /\ download_progress' = 0
    /\ last_error' = NoError
    /\ hpc' = [h \in Handlers |-> "idle"]
    /\ harg' = [h \in Handlers |-> NoArg]
    /\ hret' = [h \in Handlers |-> "none"]
    /\ tpc' = [k \in Tasks |-> "unborn"]
    /\ task' = [k \in Tasks |-> NoTask]
    /\ zipfd' = [k \in Tasks |-> FALSE]
    /\ extracted' = {}
    /\ stale' = {}
    /\ UNCHANGED <<staging_exists, staging, zipdata, nCalls>>

\* --------------------------------------------------------------------------
\* perform_bootstrap_update (launcher.py 16-55): runs when a starting worker
\* imports the extension, before anything else.  It is another process than
\* the supervisor, so each file-system operation is a step of its own; the
\* copy of one top-level entry is taken as one step.
\* --------------------------------------------------------------------------

\* no test of the marker at all
MarkerIgnored(fs) == TRUE

\* (staging_dir / "version.json").exists()
MarkerPresent(fs) == S_version_json \in fs

\* shutil.copy2(item, extension_root / item.name): the file gets the staged content
CopyFile(tree, item) == {e \in tree : e[1] # item} \cup {<<item, "new">>}

\* A copy that replaces the whole installation root by the staged folder
\* (for comparison).
ReplaceRoot(tree, fs, item) == {<<q, "new">> : q \in {r \in fs : StartsWith(r, item)}}

\* if target_dir.exists(): shutil.rmtree(target_dir); shutil.copytree(item, target_dir)
CopyTree(tree, fs, item) ==
    {e \in tree : ~StartsWith(e[1], item)} \cup {<<q, "new">> : q \in {r \in fs : StartsWith(r, item)}}

\* Path q of the installation root is the target of the staged top-level
\* entry item, or lies below it.
TargetOf(q, item) == q = item \/ (item[Len(item)] = "/" /\ StartsWith(q, item))

BootGoto(l) == bpc' = l

\* return, or the end of the function: what was printed last
BootEnd(r) == bpc' = "idle" /\ boot_result' = r /\ todo' = {}

\* A worker process starts and imports launcher.py.
BootStart ==
    /\ bpc = "idle"
    /\ BootGoto("b_exists")
    /\ boot_result' = "none"
    /\ UNCHANGED <<nonDiskVars, StagingVars, version_file, install, todo>>

\* if staging_dir.exists() and staging_dir.is_dir():
BootExists ==
    /\ bpc = "b_exists"
    /\ IF staging_exists
       THEN BootGoto("b_marker") /\ UNCHANGED <<boot_result, todo>>
       ELSE BootEnd("nothing")
    /\ UNCHANGED <<nonDiskVars, StagingVars, version_file, install>>

\* if not (staging_dir / "version.json").exists(): print(...); return
BootMarker ==
    /\ bpc = "b_marker"
    /\ IF MarkerPresent(staging)
       THEN BootGoto("b_list") /\ UNCHANGED <<boot_result, todo>>
       ELSE BootEnd("aborted")
    /\ UNCHANGED <<nonDiskVars, StagingVars, version_file, install>>

\* for item in staging_dir.iterdir(): the directory is listed
BootList ==
    /\ bpc = "b_list"
    /\ IF staging_exists
       THEN /\ todo' = IterDir(staging, <<>>)
            /\ BootGoto("b_loop")
            /\ UNCHANGED boot_result
       ELSE BootEnd("failed")
    /\ UNCHANGED <<nonDiskVars, StagingVars, version_file, install>>

\* One iteration of the loop, for whichever entry the listing yields next
\* (the order of iterdir() is that of the directory, i.e. arbitrary); after
\* the last one the loop ends.  An entry that is gone by now makes the copy
\* raise, and so may any copy (target locked or not writable, disk full):
\* the run ends in the except clause, the target of the failing copy being
\* as it was or already removed or truncated.
BootCopy ==
    /\ bpc = "b_loop"
    /\ IF todo = {}
       THEN /\ BootGoto("b_rmtree")
            /\ UNCHANGED <<version_file, install, todo, boot_result>>
       ELSE \E item \in todo, copy_ok \in BOOLEAN :
            IF item \notin staging
            THEN BootEnd("failed") /\ UNCHANGED <<version_file, install>>
            ELSE IF ~copy_ok
            THEN /\ BootEnd("failed")
                 /\ IF item = S_version_json
                    THEN version_file' \in {version_file, NoFile} /\ UNCHANGED install
                    ELSE /\ install' \in {install, {e \in install : ~TargetOf(e[1], item)}}
                         /\ UNCHANGED version_file
            ELSE /\ todo' = todo \ {item}
                 /\ UNCHANGED <<bpc, boot_result>>
                 /\ IF item = S_version_json
                    THEN version_file' = StagedVersion /\ UNCHANGED install
                    ELSE IF item[Len(item)] = "/"
                    THEN install' = CopyTree(install, staging, item) /\ UNCHANGED version_file
                    ELSE install' = CopyFile(install, item) /\ UNCHANGED version_file
    /\ UNCHANGED <<nonDiskVars, StagingVars>>

\* A clean-up that leaves the staging directory in place (for comparison).
StagingKept(exists) == exists

\* shutil.rmtree(staging_dir) has returned: the directory is gone.
StagingRemoved(exists) == FALSE

\* shutil.rmtree(staging_dir); print("Update applied successfully!")
BootRmTree ==
    /\ bpc = "b_rmtree"
    /\ IF staging_exists
       THEN /\ staging_exists' = StagingRemoved(staging_exists)
            /\ staging' = {}
            /\ zipdata' = <<>>
            /\ zipfd' = [j \in Tasks |-> FALSE]
            /\ BootEnd("applied")
       ELSE /\ BootEnd("failed")
            /\ UNCHANGED <<staging_exists, staging, zipdata, zipfd>>
    /\ UNCHANGED <<nonDiskVars, extracted, version_file, install>>

perform_bootstrap_update ==
    \/ BootStart
    \/ BootExists
    \/ BootMarker
    \/ BootList
    \/ BootCopy
    \/ BootRmTree

\* ==========================================================================
\* Specifications.  Every specification starts from the constructed
\* supervisor; each explores one component and leaves the others alone.
\* ==========================================================================
Init == InitLauncher /\ InitUpdate /\ InitLog /\ InitListener /\ InitInstall /\ InitMonitor
        /\ InitServer /\ InitStatus

\* The restart orchestrator and process controller under concurrent requests
\* of the control API (a request of the console thread runs the same
\* manual_restart; that thread is explored with the monitoring loop).
Next ==
    \/ \E t \in Threads : ApiRestart(t)
    \/ \E t \in Threads : RestartStep(t)
    \/ \E p \in Pids : ProcExit(p)

\* Release 1.2.9 is installed.
InitInstalled == Init /\ version_file = V_1_2_9

\* No certificate pair is installed (the listener serves plain HTTP).
InitPlain == InitInstalled /\ ssl_context = "None"

Spec == InitPlain /\ [][Next]_vars

\* The update manager under concurrent control-API requests.
NextUpdate ==
    \/ \E h \in Handlers : DownloadRequest(h)
    \/ \E h \in Handlers : start_download(h)
    \/ \E k \in Tasks : download_task(k)

\* ... and the worker's launch arguments are the default ones.
InitDefaultArgs == InitPlain /\ args_cfg = 1

SpecUpdate == InitDefaultArgs /\ [][NextUpdate]_vars

\* One restart thread, with a worker the OS may refuse to signal.
NextStop ==
    \/ ApiRestart("t1")
    \/ RestartStep("t1")
    \/ SignalRefused("t1")
    \/ \E p \in Pids : ProcExit(p)

SpecStop == InitDefaultArgs /\ [][NextStop]_vars

\* One restart thread and status requests beside it.
NextApiStatus ==
    \/ ApiRestart("t1")
    \/ RestartStep("t1")
    \/ \E p \in Pids : ProcExit(p)
    \/ get_api_status

SpecApiStatus == InitDefaultArgs /\ [][NextApiStatus]_vars

\* One download, alone: a single request for any of the packages.
NextExtract ==
    \/ SingleDownloadRequest("h1")
    \/ start_download("h1")
    \/ download_task(1)

SpecExtract == InitDefaultArgs /\ [][NextExtract]_vars

\* The log buffer under concurrent log() and get_recent_logs() calls.
NextLog ==
    \/ \E w \in Writers : log(w)
    \/ get_recent_logs

SpecLog == InitDefaultArgs /\ [][NextLog]_vars

\* The status report: downloads requested one at a time, the supervisor
\* restarted at any moment, the status asked for at any moment.
NextStatus ==
    \/ DownloadRequest("h1")
    \/ start_download("h1")
    \/ \E k \in Tasks : download_task(k)
    \/ SupervisorRestart
    \/ StatusRequest

SpecStatus == InitDefaultArgs /\ [][NextStatus]_vars

\* The bootstrap step of starting workers, with one download of any package.
NextBootstrap ==
    \/ SingleDownloadRequest("h1")
    \/ start_download("h1")
    \/ download_task(1)
    \/ perform_bootstrap_update

SpecBootstrap == InitDefaultArgs /\ [][NextBootstrap]_vars

\* ... and the update status asked for at any moment.
NextApply ==
    \/ NextBootstrap
    \/ StatusRequest

SpecApply == InitDefaultArgs /\ [][NextApply]_vars

\* The monitoring loop beside the restart requests of the API and the console.
NextMonitor ==
    \/ ApiRestart("t1")
    \/ ConsoleRestart("t1")
    \/ ConsoleHead
    \/ RestartStep("t1")
    \/ \E p \in Pids : ProcExit(p)
    \/ start_api_server
    \/ monitor_loop

SpecMonitor == InitDefaultArgs /\ [][NextMonitor]_vars

\* Shutdown of the supervisor beside the restart requests of one handler
\* thread and the connections of the control API.
NextShutdown ==
    \/ start_api_server
    \/ ClientConnects
    \/ ClientCloses
    \/ ApiRestart("t1")
    \/ RestartStep("t1")
    \/ \E p \in Pids : ProcExit(p)
    \/ shutdown("t2")

SpecShutdown == InitDefaultArgs /\ [][NextShutdown]_vars

\* POST /api/restart reaches its handler only through the serving control
\* API: the server is bound and its serve_forever loop has not been ended.
ServedRestart(t) ==
    /\ api_server = "serving"
    /\ \A u \in Threads : pc[u] # "sh_close"
    /\ ApiRestart(t)

\* Shutdown of the supervisor beside the restart requests the serving
\* control API hands to one handler thread.
NextServed ==
    \/ start_api_server
    \/ ClientConnects
    \/ ClientCloses
    \/ ServedRestart("t1")
    \/ RestartStep("t1")
    \/ \E p \in Pids : ProcExit(p)
    \/ shutdown("t2")

SpecServed == InitDefaultArgs /\ [][NextServed]_vars

\* The monitoring loop and the console loop beside a shutdown.
NextLoops ==
    \/ start_api_server
    \/ monitor_loop
    \/ console_input_loop
    \/ RestartStep("t1")
    \/ shutdown("t2")

SpecLoops == InitDefaultArgs /\ [][NextLoops]_vars

\* The release check, for every recorded version and every reported tag.
NextVersion == check_for_update

InitVersionSpec == Init /\ ssl_context = "None" /\ args_cfg = 1

SpecVersion == InitVersionSpec /\ [][NextVersion]_vars

\* The listener's accept path.
NextListener == get_request \/ ClientConnect \/ ClientSends

\* Default launch arguments, with or without a certificate pair.
InitListenerSpec == InitInstalled /\ args_cfg = 1

SpecListener == InitListenerSpec /\ [][NextListener]_vars

\* ==========================================================================
\* Claims about the restart orchestrator and the process controller
\* ==========================================================================

\* Thread t is executing one of the steps stop, wait, start, confirm, poll of
\* a restart sequence.
InRestartSteps(t) == pc[t] \notin {"idle", "mr_begin", "rc_status1", "rc_status2", "done"}

\* C1: at most one restart sequence is in flight at any time: the steps
\* (stop, wait, start, confirm, poll) of two restart sequences are never
\* interleaved, whatever the interleaving of requests from control-API
\* connections and the console.
C1_OneRestartInFlight ==
    Cardinality({t \in Threads : InRestartSteps(t)}) <= 1

\* The worker processes spawned by this supervisor that are alive.
SpawnedAlive == {p \in Pids \ {OrigPid} : procs[p] = "alive"}

\* A step that spawns a worker process.
Spawns == \E p \in Pids : procs[p] = "unborn" /\ procs'[p] = "alive"

\* C2: in every reachable state at most one worker process spawned by the
\* supervisor is alive, and a step that spawns a process is taken only with
\* a null worker handle (no non-null handle is overwritten by a new process).
C2_SingleWorker ==
    [][ /\ Cardinality(SpawnedAlive') <= 1
        /\ Spawns => comfyui_process = None ]_vars

\* C3: every restart sequence terminates with exactly one of the outcomes
\* Success or Failed, whatever the worker does.  A sequence has finitely many
\* steps (the wait loop is bounded by max_wait, elapsed grows on every round),
\* so it terminates exactly when it never blocks: a sequence that has ended
\* carries one outcome, and one that has not ended carries none and can take
\* its next step.
C3_RestartTerminates ==
    \A t \in Threads :
        /\ pc[t] = "done" => result[t] \in {"Success", "Failed"}
        /\ pc[t] \notin {"idle", "done"} =>
              result[t] = "none" /\ ENABLED RestartStep(t)

\* The supervisor's own script (launcher.py starts it as launcher_service.py)
\* appears in the launch argument list.
RefersToSupervisorScript(args) ==
    \E i \in 1..Len(args) : Contains(args[i], S_launcher_service_py)

\* C4: if start() is invoked while the computed launch argument list contains
\* a reference to the supervisor's own script, start() returns failure, spawns
\* no process and leaves the worker handle unchanged.
C4_RecursiveStartRefused ==
    [][ \A t \in Threads :
          (pc[t] = "sc_spawn" /\ pc'[t] # "sc_spawn"
             /\ RefersToSupervisorScript(comfyui_args))
          => /\ pc'[t] = "done" /\ result'[t] = "Failed"
             /\ procs' = procs
             /\ comfyui_process' = comfyui_process ]_vars

\* --------------------------------------------------------------------------
\* Update manager
\* --------------------------------------------------------------------------
\* Download tasks whose thread has started and not yet returned
RunningTasks == {k \in Tasks : tpc[k] \notin {"unborn", "t_done", "t_failed"}}

\* The most recently started download task
Latest(k) == tpc[k] # "unborn" /\ \A j \in Tasks : tpc[j] # "unborn" => j <= k

\* C5: a download whose computed hash differs from the supplied expected hash
\* leaves verification by the exception path, never extracts an archive entry,
\* ends with last_error set and the status reported as "error", and is never
\* reported ready_to_restart.
C5_HashMismatchEndsInError ==
    [][ \A k \in Tasks : FailsVerification(task[k]) =>
          /\ (tpc[k] = "t_verify" /\ tpc'[k] # "t_verify") => tpc'[k] = "t_exc_error"
          /\ k \notin extracted'
          /\ (tpc[k] # "t_failed" /\ tpc'[k] = "t_failed" /\ task[k].err = E_integrity)
                => last_error' # NoError /\ get_update_status' = "error"
          /\ (Latest(k)' /\ tpc'[k] = "t_failed") => get_update_status' # "ready_to_restart"
      ]_vars

\* C6: no two download tasks run at the same moment.
C6_OneDownloadInFlight == Cardinality(RunningTasks) <= 1

\* C7: a start_download call that tests the busy flag while no download task
\* runs (and no other call is under way) goes on to start one and returns
\* true; a call that tests it while a task is still running returns false
\* there and then, so progress, last error and the running task are untouched.
C7_StartDownloadContract ==
    [][ \A h \in Handlers : (hpc[h] = "sd_check" /\ hpc'[h] # "sd_check") =>
          /\ (RunningTasks = {} /\ \A g \in Handlers \ {h} : hpc[g] = "idle")
                => hpc'[h] = "sd_flag"
          /\ RunningTasks # {}
                => /\ hpc'[h] = "idle" /\ hret'[h] = "False"
                   /\ UNCHANGED <<ServiceFlags, tpc, task>>
      ]_vars

\* --------------------------------------------------------------------------
\* Log buffer
\* --------------------------------------------------------------------------
\* No log() call is between its append and its return.
Quiescent == \A w \in Writers : wpc[w] = "idle"

Min(a, b) == IF a <= b THEN a ELSE b

\* The most recent Min(n, max_log_buffer) of n appended entries, oldest first
MostRecent(n) ==
    [i \in 1..Min(n, max_log_buffer) |-> n - Min(n, max_log_buffer) + i]

\* C8: whenever the log() calls made so far have all returned, the buffer
\* holds exactly the most recent min(N, 200) of the N appended entries, oldest
\* first; and whenever a log() call returns, the buffer is no longer than 200.
C8_BufferHoldsMostRecent ==
    [][ /\ Quiescent' => log_buffer' = MostRecent(nAppends')
        /\ nReturned' > nReturned => Len(log_buffer') <= max_log_buffer
      ]_vars

\* C9: no field of a get_recent_logs result shows more than 200 entries,
\* whatever log() calls run beside it, and whenever the buffer shrinks it
\* loses exactly its oldest entry.
C9_AppendEvictAtomic ==
    [][ /\ response'.total_count <= max_log_buffer
        /\ response'.current_size <= max_log_buffer
        /\ Len(response'.logs) <= max_log_buffer
        /\ Len(log_buffer') < Len(log_buffer) => log_buffer' = Tail(log_buffer)
      ]_vars

\* --------------------------------------------------------------------------
\* Dual-protocol listener
\* --------------------------------------------------------------------------
\* The first byte the listener peeked is 0x16.
FirstByteIs0x16(r) ==
    r.peek_bytes # NoPeek /\ r.peek_bytes # <<>> /\ Head(r.peek_bytes) = TLS_HANDSHAKE

\* C10: for every connection get_request has returned, a TLS handshake was
\* attempted iff a TLS context is configured and the first peeked byte is 0x16;
\* without an attempt the connection is served as plaintext; and with no TLS
\* context nothing is peeked.
C10_HandshakeIffTlsFirstByte ==
    \A i \in 1..Len(requests) :
        LET r == requests[i]
        IN /\ r.handshake <=> (ssl_context # "None" /\ FirstByteIs0x16(r))
           /\ ~r.handshake => r.kind = "plain"
           /\ ssl_context = "None" => r.peek_bytes = NoPeek

\* C10 witness: with a TLS context, one connection was wrapped after a 0x16
\* peek and another, starting with a different byte, was returned plain.
C10_Witness ==
    /\ ssl_context # "None"
    /\ \E i, j \in 1..Len(requests) :
        /\ requests[i].kind = "ssl" /\ requests[i].handshake /\ FirstByteIs0x16(requests[i])
        /\ requests[j].kind = "plain" /\ ~requests[j].handshake
        /\ requests[j].peek_bytes # NoPeek /\ requests[j].peek_bytes # <<>>


\* ---- C11, C12: extraction of the downloaded package ----

\* The first path component of an entry name.
FirstComponent(n) ==
    LET slashes == {i \in 1..Len(n) : n[i] = "/"}
    IN IF slashes = {} THEN n
       ELSE SubSeq(n, 1, (CHOOSE i \in slashes : \A j \in slashes : i <= j) - 1)

\* Do all entries of the package lie under one common root folder?
UnderOneRoot(names) ==
    /\ Len(names) > 0
    /\ \A i \in 1..Len(names) :
        /\ FirstComponent(names[i]) = FirstComponent(names[1])
        /\ Len(names[i]) > Len(FirstComponent(names[i]))

\* The tree made of the given paths and the folders leading to them.
TreeOf(paths) == UNION {{q} \cup Parents(q) : q \in paths \ {<<>>}}

\* The package's entries at their paths relative to the root folder.
Hoisted(names) ==
    TreeOf({Drop(names[i], Len(FirstComponent(names[1])) + 1) : i \in 1..Len(names)})

\* The package's entries at their original paths.
InPlace(names) == TreeOf({names[i] : i \in 1..Len(names)})

\* The only download of the run has ended, well or not.
DownloadEnded == tpc[1] \in {"t_done", "t_failed"}

\* A download that got its payload ends with the staging area holding
\* exactly the given tree and the status ready_to_restart.
StagedAs(tree) ==
    /\ tpc[1] = "t_failed" => task[1].err = E_network
    /\ tpc[1] = "t_done" => staging = tree /\ get_update_status = "ready_to_restart"

\* C11: when every entry of the package lies under one common root folder,
\* the finished download leaves each entry in the staging area at its path
\* relative to that folder (hoisted exactly one level, the root folder itself
\* absent) and the status is ready_to_restart.
C11_RootFolderHoisted ==
    (DownloadEnded /\ UnderOneRoot(Archives[task[1].a])) => StagedAs(Hoisted(Archives[task[1].a]))

\* C12: when the entries of the package do not all lie under one common root
\* folder, the finished download leaves every entry in the staging area at
\* exactly its original relative path and the status is ready_to_restart.
C12_MixedExtractedInPlace ==
    (DownloadEnded /\ ~UnderOneRoot(Archives[task[1].a])) => StagedAs(InPlace(Archives[task[1].a]))

\* ---- C13: the release check's version comparison ----

\* A version made only of numeric dot-separated components.
NumericVersion(v) ==
    /\ Len(v) > 0
    /\ v[1] # "." /\ v[Len(v)] # "."
    /\ \A i \in 1..Len(v) : v[i] = "." \/ \E d \in 0..9 : IntToStr(d) = <<v[i]>>
    /\ \A i \in 1..(Len(v) - 1) : ~(v[i] = "." /\ v[i + 1] = ".")

\* 10^n
RECURSIVE Pow10(_)
Pow10(n) == IF n = 0 THEN 1 ELSE 10 * Pow10(n - 1)

\* The number a run of decimal digits denotes.
RECURSIVE DigitsValue(_)
DigitsValue(x) ==
    IF Len(x) = 0 THEN 0
    ELSE (CHOOSE d \in 0..9 : IntToStr(d) = <<x[1]>>) * Pow10(Len(x) - 1) + DigitsValue(Tail(x))

\* The i-th component of a numeric version, as a number; the count of components.
NumComponents(v) == Cardinality({i \in 1..Len(v) : v[i] = "."}) + 1
Component(v, i) ==
    LET starts == {j \in 1..Len(v) : (j = 1 \/ v[j - 1] = ".")
                                     /\ Cardinality({k \in 1..(j - 1) : v[k] = "."}) = i - 1}
        b == CHOOSE j \in starts : TRUE
        e == CHOOSE j \in b..Len(v) : (j = Len(v) \/ v[j + 1] = ".")
                                      /\ \A k \in b..j : v[k] # "."
    IN DigitsValue(SubSeq(v, b, e))

\* Component-wise numeric comparison: a is strictly greater than b when at
\* the first component where they differ a's is the larger number (a version
\* that extends another by further components counts as the greater).
StrictlyGreater(a, b) ==
    \E i \in 1..NumComponents(a) :
        /\ \A j \in 1..(i - 1) : j <= NumComponents(b) /\ Component(a, j) = Component(b, j)
        /\ i <= NumComponents(b) => Component(a, i) > Component(b, i)

\* C13: for a latest and a current version made only of numeric
\* dot-separated components, the release check reports has_update exactly
\* when latest is strictly greater than current under component-wise numeric
\* comparison, and so reports no update when the two are equal.
C13_HasUpdateIffNewer ==
    (/\ update_info.kind = "release"
     /\ NumericVersion(update_info.latest_version)
     /\ NumericVersion(update_info.current_version))
    => /\ update_info.has_update
            <=> StrictlyGreater(update_info.latest_version, update_info.current_version)
       /\ update_info.latest_version = update_info.current_version => ~update_info.has_update

\* 1.10.0 was reported while 1.9.0 is installed, and an update was announced.
C13_Witness ==
    /\ update_info.kind = "release"
    /\ update_info.latest_version = V_1_10_0
    /\ update_info.current_version = V_1_9_0
    /\ update_info.has_update

\* ---- C14: the reported update status ----

\* The status the precedence rule gives for a combination of flags.
PrecedenceStatus(error_set, downloading, populated, residual) ==
    IF error_set THEN "error"
    ELSE IF downloading THEN "downloading"
    ELSE IF populated /\ ~residual THEN "ready_to_restart"
    ELSE "idle"

\* C14: get_update_status reports error when the error field is set;
\* otherwise downloading when a download is in progress; otherwise
\* ready_to_restart when the staging directory is populated and holds no
\* residual archive; otherwise idle.
C14_StatusPrecedence ==
    update_status # NoStatus
    => update_status.status = PrecedenceStatus(update_status.last_error # NoError,
                                                update_status.is_downloading,
                                                update_status.populated,
                                                update_status.residual)

\* ---- C15, C16: the bootstrap step ----

\* C15: a bootstrap run that finds the staging directory without a
\* version.json in its root ends there: it copies nothing, and leaves the
\* installation root and the staging directory exactly as they were.
C15_NoMarkerNoCopy ==
    [][(bpc = "b_marker" /\ S_version_json \notin staging /\ bpc' # bpc)
       => /\ bpc' = "idle" /\ boot_result' = "aborted"
          /\ install' = install /\ version_file' = version_file
          /\ staging' = staging /\ staging_exists' = staging_exists]_vars

\* A run was aborted at a populated staging directory without marker, the
\* installation being as it was installed.
C15_Witness ==
    /\ boot_result = "aborted" /\ bpc = "idle"
    /\ staging_exists /\ staging # {} /\ S_version_json \notin staging
    /\ install = InstalledTree /\ version_file = V_1_2_9

\* C16: the bootstrap writes version.json to the installation root only
\* after every other staged top-level entry has been copied (and deletes the
\* staging directory only after the loop): when version.json is written, no
\* other listed entry is still to be copied.
C16_VersionWrittenLast ==
    [][(bpc = "b_loop" /\ version_file' # version_file) => todo = {S_version_json}]_vars

\* ---- C17: stop_comfyui clears the handle ----

\* Thread t is inside stop_comfyui.
InStop(t) ==
    pc[t] \in {"st_check", "st_poll", "st_term", "st_wait", "st_kill", "st_kwait",
               "st_clear", "st_orphan", "st_owait"}

\* C17: whenever stop_comfyui returns, with True or with False (the except
\* clause included), self.comfyui_process is None.
C17_StopReturnsWithNullHandle ==
    [][\A t \in Threads : (InStop(t) /\ ~InStop(t)') => comfyui_process' = None]_vars

\* ---- C18: no automatic restart ----

\* C18: a health-check failure never triggers a restart: no step of the
\* monitoring loop touches the worker, its handle or a restart thread
\* (it calls neither stop_comfyui nor start_comfyui), and a thread enters a
\* restart sequence only with a restart request of the API or the console.
C18_NoAutomaticRestart ==
    [][/\ mpc' # mpc => UNCHANGED <<comfyui_process, procs, pc>>
       /\ \A t \in Threads :
            (pc[t] = "idle" /\ pc'[t] # "idle") => nRestarts' = nRestarts + 1]_vars

\* The worker is gone, the monitor has found it not responsive and logged
\* it, and no restart has begun or been asked for.
C18_Witness ==
    /\ \A p \in Pids : procs[p] # "alive"
    /\ last_down_logged = "True" /\ mpc = "m_head"
    /\ \A t \in Threads : pc[t] = "idle"
    /\ nRestarts = 0

\* ---- C19: the order of shutdown ----

\* Thread t is in shutdown() at the stopping of the listener.
StoppingListener(t) == t \in shutting /\ pc[t] \in {"sh_api", "sh_close"}

\* C19: shutdown clears is_running, then stops the listener, then stops the
\* worker; each step is attempted whatever became of the one before, so a
\* listener that cannot be stopped does not keep shutdown from going on to
\* stop the worker: a thread at the listener step can take its next step.
C19_ShutdownStepsAllAttempted ==
    \A t \in Threads :
        /\ StoppingListener(t) => /\ ~is_running
                                  /\ ENABLED (StopApiShutdown(t) \/ StopApiClose(t))
        /\ (t \in shutting /\ InStop(t)) => ~is_running /\ api_server \in {"None", "closed"}

\* ---- C20: the restart sequence's log entries ----

\* C20: when a restart sequence has completed, with whatever outcome, the
\* thread that ran it has appended at least five entries of level 'restart'
\* during the sequence.
C20_FiveRestartEntries ==
    \A t \in Threads : pc[t] = "done" => restart_logs[t] >= 5

\* ---- C21: a status read beside stop, start and restart ----

\* C21: a status read that runs concurrently with stop_comfyui, start_comfyui
\* or a restart sequence observes a consistent snapshot of the worker handle:
\* it never fails because the handle was cleared between two of its reads,
\* and it never reports the process as running together with a null PID.
C21_StatusSnapshotConsistent ==
    /\ gpc # "gs_failed"
    /\ gpc = "gs_done" =>
          ~(api_status.process_running = "True" /\ api_status.process_pid = None)

\* ---- C22: no automatic retry after a failed download ----

\* The start_download calls that tested the busy flag after the last end of
\* a task in error.
Fresh == Handlers \ stale

\* C22: after a download task has ended in error nothing but a start_download
\* call made afterwards starts a download or clears the error: last_error
\* stays recorded and the status stays "error" until then, and the next such
\* call (no task running, no other call under way) passes the busy-flag
\* test, clears the error and returns true.
C22_NoAutomaticRetry ==
    [][ /\ (last_error # NoError /\ last_error' = NoError) =>
              \E h \in Fresh : hpc[h] = "sd_error" /\ hpc'[h] = "sd_spawn"
        /\ (\E k \in Tasks : tpc[k] = "unborn" /\ tpc'[k] # "unborn") =>
              \E h \in Fresh : hpc[h] = "sd_spawn" /\ hret'[h] = "True"
        /\ last_error' # NoError => get_update_status' = "error"
        /\ \A h \in Fresh :
              (/\ hpc[h] = "sd_check" /\ hpc'[h] # "sd_check"
               /\ last_error # NoError /\ RunningTasks = {}
               /\ \A g \in Fresh \ {h} : hpc[g] = "idle")
              => hpc'[h] = "sd_flag"
      ]_vars

\* ---- C23: the handle is cleared after confirmed termination ----

\* C23: the worker handle is cleared only after the tracked process has been
\* confirmed to have exited: no step, the except clause of stop_comfyui
\* included, makes the handle None while the process it names is alive.
C23_HandleClearedAfterExit ==
    [][(comfyui_process # None /\ comfyui_process' = None) => ~IsAlive(comfyui_process)]_vars

\* ---- C24: graceful termination, then forced kill ----

\* Thread t issues kill() in this step.
KillIssued(t) == pc[t] = "st_kill" /\ pc'[t] = "st_kwait"

\* stop_comfyui returns True to thread t in this step.
StopReturnsTrue(t) == InStop(t) /\ ~InStop(t)' /\ stop_success'[t]

\* C24: in stop_comfyui with a live tracked process, kill() is issued only on
\* the process that terminate() was issued on and whose wait(timeout=10)
\* timed out; when the terminated process has exited by the end of the grace
\* period no kill is issued; and in both cases the process has exited when
\* stop_comfyui returns True.
C24_KillOnlyAfterGracePeriod ==
    [][\A t \in Threads :
         /\ KillIssued(t) => /\ hist[t].termed = comfyui_process
                             /\ hist[t].timedout = comfyui_process
         /\ (pc[t] = "st_wait" /\ ~IsAlive(hist[t].termed)) => pc'[t] # "st_kill"
         /\ (StopReturnsTrue(t) /\ hist[t].termed # None) => procs'[hist[t].termed] = "exited"
      ]_vars

\* ---- C25: orphans are terminated by every stop ----

\* The live worker processes matching the port/script signature
MatchingAlive == {p \in Pids : procs[p] = "alive" /\ SignatureMatch(LaunchCmd(comfyui_args))}

\* C25: every invocation of stop_comfyui, whatever happened while the tracked
\* process was handled (an error raised included), returns from the orphan
\* scan, and no worker process matching the signature is left running when
\* it returns.
C25_NoOrphanLeftRunning ==
    [][\A t \in Threads : (InStop(t) /\ ~InStop(t)') =>
          /\ pc[t] \in {"st_orphan", "st_owait"}
          /\ MatchingAlive' = {}
      ]_vars

\* ---- C26: one stop, then one start ----

\* C26: every restart sequence invokes stop_comfyui exactly once and
\* start_comfyui exactly once, the latter after stop_comfyui has returned
\* (with True or False) and the clean-shutdown delay has passed; a failed
\* stop never ends the sequence.
C26_StopOnceThenStartOnce ==
    [][\A t \in Threads \ shutting :
         /\ (pc[t] # "done" /\ pc'[t] = "done") =>
               hist'[t].stops = 1 /\ hist'[t].starts = 1
         /\ (pc[t] # "sc_spawn" /\ pc'[t] = "sc_spawn") =>
               pc[t] = "rc_wait" /\ hist'[t].stops = 1 /\ hist'[t].starts = 1
         /\ (InStop(t) /\ ~InStop(t)') => pc'[t] = "rc_wait"
      ]_vars

\* ---- C27: a failed start ends the sequence ----

\* start_comfyui returns False to thread t in this step.
StartFails(t) == pc[t] \in {"sc_spawn", "sc_log"} /\ pc'[t] \notin {"sc_spawn", "sc_log", "rc_settle1"}

\* C27: when start_comfyui returns False inside a restart sequence, the
\* sequence goes directly to Failed (no settle wait, no responsiveness
\* probe), returns False, and the worker handle is left null.
C27_StartFailureEndsSequence ==
    [][\A t \in Threads :
         StartFails(t) => /\ pc'[t] = "done"
                          /\ result'[t] = "Failed"
                          /\ comfyui_process' = None
      ]_vars

\* ---- C28: the worker exits within the settle time ----

\* C28: when the newly started worker has already exited at the end of the
\* settle time (no worker spawned by the supervisor is alive when the
\* sequence makes its check after time.sleep(2)), the sequence does not enter
\* the responsiveness wait: it logs the error entries with the exit
\* diagnostics and ends as Failed.
C28_ImmediateExitFails ==
    [][\A t \in Threads :
         /\ (pc[t] = "rc_settle1" /\ SpawnedAlive = {}) =>
               pc'[t] \in {"rc_settle1", "rc_settle2"}
         /\ (pc[t] = "rc_settle2" /\ SpawnedAlive = {} /\ pc'[t] # "rc_settle2") =>
               pc'[t] = "done" /\ result'[t] = "Failed" /\ hist'[t].diag
      ]_vars

\* ---- C29: the responsiveness wait ----

\* Thread t is in the responsiveness wait (932-950).
InWait(t) == pc[t] \in {"rc_poll1", "rc_poll2", "rc_probe"}

\* C29: during the responsiveness wait the sequence ends as Success only
\* with a responsive probe result obtained while the worker is alive, and at
\* the first such result; once the worker has exited, the sequence does not
\* end as Success, whatever a probe of the port answers.
C29_SuccessOnlyWhileWorkerAlive ==
    [][\A t \in Threads :
         /\ (InWait(t) /\ pc'[t] = "done" /\ result'[t] = "Success") =>
               pc[t] = "rc_probe" /\ SpawnedAlive # {}
         /\ (InWait(t) /\ SpawnedAlive = {} /\ pc'[t] = "done") => result'[t] = "Failed"
      ]_vars

\* ---- C30: the wait is exhausted ----

\* The worker process (the one the worker handle names) is alive.
TrackedAlive == comfyui_process # None /\ procs[comfyui_process] = "alive"

\* C30: when the responsiveness wait is exhausted without a responsive probe,
\* the sequence ends as Success if and only if the worker process is alive
\* at that moment (the moment of the step that ends the sequence), and as
\* Failed otherwise.
C30_ExhaustedWaitOutcome ==
    [][\A t \in Threads :
         (pc[t] \in {"rc_final1", "rc_final2"} /\ pc'[t] = "done") =>
             /\ result'[t] \in {"Success", "Failed"}
             /\ result'[t] = "Success" <=> TrackedAlive
      ]_vars

\* The wait was exhausted with the worker still running: a soft success.
C30_Witness ==
    \E t \in Threads : /\ pc[t] = "done" /\ hist[t].waited
                        /\ result[t] = "Success" /\ TrackedAlive

\* ---- C31: a failed TLS handshake ----

\* C31: when wrap_socket's handshake on an accepted connection fails, the
\* error is caught, get_request returns the connection as a plaintext one,
\* and the serving thread is back at accept(): no step of get_request ends
\* the accept loop.
C31_HandshakeFailureFallsBack ==
    [][/\ lpc' # "crashed"
       /\ (lpc = "wrap" /\ lpc' # "wrap") =>
             /\ lpc' = "accept"
             /\ Len(requests') = Len(requests) + 1
             /\ LET r == requests'[Len(requests')]
                IN r.handshake /\ r.kind \in {"ssl", "plain"}
      ]_vars

\* A handshake failed, the connection was returned as plaintext, and a later
\* connection was accepted and returned.
C31_Witness ==
    \E i, j \in 1..Len(requests) :
        /\ i < j
        /\ requests[i].handshake /\ requests[i].kind = "plain"

\* ---- C37: the accept loop and a silent client ----

\* C37: with a TLS context configured, the serving thread is never waiting
\* for the peer of one connection (for its first bytes, or for its part of
\* the TLS handshake) while another connection is waiting to be accepted.
C37_DetectionNeverBlocksAccept ==
    ~(ssl_context # "None" /\ lpc \in {"peek", "wrap"} /\ conn.blocked /\ backlog > 0)

\* ---- C35: what the bootstrap step applies ----

\* The download task has passed os.remove(temp_zip) (145): extraction is
\* complete and the staging directory holds the package only.
ExtractionCompleted == \E k \in Tasks : tpc[k] \in {"t_flag", "t_progress", "t_done"}

\* This step of the bootstrap loop copies a staged entry into the
\* installation root.
BootCopies == bpc = "b_loop" /\ (install' # install \/ version_file' # version_file)

\* C35: the bootstrap step copies staged entries into the installation root
\* only when the download task that filled the staging directory has
\* completed its extraction, and the installation root never receives the
\* temporary archive update.zip or the scratch folder _temp_extract.
C35_OnlyCompletedStagingApplied ==
    [][/\ BootCopies => ExtractionCompleted
       /\ \A e \in install' : e[1] # S_update_zip /\ ~StartsWith(e[1], S_temp_extract)
      ]_vars

\* ---- C32: applying is idempotent ----

\* C32: when a bootstrap run ends with the update applied, the staging
\* directory no longer exists; a run that finds no staging directory ends at
\* once and changes nothing in the installation root; and while the last run
\* is one that applied an update, there is no staging directory for a
\* further run to apply.
C32_AppliedAtMostOnce ==
    /\ [][/\ (bpc = "b_rmtree" /\ boot_result' = "applied") =>
                 ~staging_exists' /\ staging' = {}
          /\ (bpc = "b_exists" /\ ~staging_exists /\ bpc' # bpc) =>
                 /\ bpc' = "idle" /\ boot_result' = "nothing"
                 /\ install' = install /\ version_file' = version_file
         ]_vars
    /\ [](boot_result = "applied" => ~staging_exists)

\* An update has been applied (the installed version.json is the staged
\* one), and a later run has found nothing to apply.
C32_Witness ==
    /\ bpc = "idle" /\ boot_result = "nothing"
    /\ version_file = StagedVersion /\ ~staging_exists
    /\ \E e \in install : e[2] = "new"

\* ---- C33: a copy fails during the bootstrap step ----

\* What the installation root holds for the staged entry item.
InstalledFor(tree, item) == {e \in tree : TargetOf(e[1], item)}

\* C33: when the copy of a staged entry fails, the bootstrap run ends there
\* and returns (the function is left normally, its last message being the
\* failure), and the installation entries of every staged entry the loop had
\* not yet come to are unchanged: every step of the loop, the failing one
\* included, changes at most the target of one entry still to be processed
\* and leaves the targets of all the others as they were.
C33_CopyFailureLeavesRestUnchanged ==
    [][bpc = "b_loop" =>
        /\ boot_result' = "failed" => bpc' = "idle"
        /\ \/ install' = install /\ version_file' = version_file
           \/ \E item \in todo :
                 /\ \A other \in todo \ {item} :
                       InstalledFor(install', other) = InstalledFor(install, other)
                 /\ item # S_version_json => version_file' = version_file
                 /\ item = S_version_json => install' = install
      ]_vars

\* A run failed at a copy after another entry had been copied: the
\* installation holds new content, the staging directory is still there.
C33_Witness ==
    /\ bpc = "idle" /\ boot_result = "failed"
    /\ staging_exists /\ S_version_json \in staging
    /\ \E e \in install : e[2] = "new"
    /\ \E e \in install : e[2] = "old"

\* ---- C38: ready_to_restart and the bootstrap step ----

\* C38: a bootstrap run that ends while the last status report was
\* ready_to_restart, and the status is still ready_to_restart, ends with the
\* staged update applied and the staging directory removed, so that the
\* status is idle afterwards.
C38_ReadyIsApplied ==
    [][(/\ bpc # "idle" /\ bpc' = "idle"
        /\ update_status.status = "ready_to_restart"
        /\ get_update_status = "ready_to_restart")
       => /\ boot_result' = "applied"
          /\ ~staging_exists'
          /\ get_update_status' = "idle"
      ]_vars

\* ---- C39: the staging_ready field ----

\* C39: in every result of get_update_status, staging_ready is true only
\* when the reported status is ready_to_restart.
C39_StagingReadyOnlyWhenReady ==
    update_status # NoStatus =>
        (update_status.staging_ready => update_status.status = "ready_to_restart")

\* ---- C34: the is-running flag and the two loops ----

\* The monitoring loop issues a health probe in this step.
MonitorProbes == mpc = "m_probe" /\ mpc' = "m_head"

\* The console loop starts a restart sequence in this step.
ConsoleStartsRestart == cpc = "c_input" /\ cpc' = "c_restart"

\* C34: a loop that comes to its head with the is-running flag cleared
\* terminates, and once the flag is cleared the monitoring loop issues no
\* health probe and the console loop starts no restart sequence.
C34_LoopsStopOnFlag ==
    [][/\ (mpc = "m_head" /\ ~is_running /\ mpc' # mpc) => mpc' = "m_stopped"
       /\ (cpc = "c_head" /\ ~is_running /\ cpc' # cpc) => cpc' = "c_stopped"
       /\ ~is_running => ~MonitorProbes
       /\ ~is_running => ~ConsoleStartsRestart
      ]_vars

\* shutdown()'s stop_comfyui() (1064) has returned.
ShutdownStoppedWorker == \E t \in shutting : pc[t] \in {"rc_wait", "sh_done"}

C40_OncePerOutage ==
    /\ Len(monitor_log) >= 1 => monitor_log[1] = "not responsive" \/ Len(monitor_log) = 2
    /\ Len(monitor_log) = 2 => monitor_log[1] # monitor_log[2]

\* A second outage after one that had been answered: its entry follows the
\* "responsive again" of the first, and the flag is set again.
C40_Witness ==
    /\ monitor_log = <<"responsive again", "not responsive">>
    /\ last_down_logged = "True"
    /\ mpc = "m_head"
    /\ ~logs_subscribed

====
